---- MODULE Spec2Model ----
(***************************************************************************)
(* A model of the per-vcpu Xen personality of MicroV,                      *)
(* bfvmm/src/xen/xen.cpp: the identity allocator, the tsc/ns conversions,  *)
(* the seqlock-published wallclock / time-info / runstate areas, the       *)
(* singleshot timer and the hypercall dispatcher.                          *)
(*                                                                         *)
(* TLC's integers are 32 bits wide, so the machine words are scaled:       *)
(* a uint64_t is modelled with 2*HalfBits bits (arithmetic % Word), a      *)
(* uint32_t with HalfBits bits (% Half), the ">> 32" / "<< 32" of the      *)
(* fixed-point conversions with HalfBits, and 10^9 ns per second with      *)
(* NsPerSec.  All wrap-around of the code is kept at the scaled width.     *)
(* The 32-bit seqlock version counters are scaled to VerBits bits.         *)
(***************************************************************************)
EXTENDS Integers, Sequences, FiniteSets, TLC

\* ------------------------------------------------------------------ bounds
\* bits of a scaled uint32_t
HalfBits == 4
\* nanoseconds per second, scaled
NsPerSec == 10
\* xen objects constructed concurrently
MaxDoms == 3
\* the time stamp counter runs from 1 to MaxTsc
MaxTsc == 3
\* the deadlines of singleshot requests run from 0 to MaxDeadline
MaxDeadline == 3
\* times the shared-info page is mapped
MaxInits == 2
\* virtualization exits taken in a run of the whole machine, of the timer
\* machine and of the runstate machine
MaxExits == 2
MaxTimerExits == 4
MaxRunExits == 5
\* bits of a scaled seqlock version counter
VerBits == 3

Half == 2 ^ HalfBits
Word == Half * Half
U64 == 0 .. (Word - 1)

TscKhzSet == {7, 10}
PetShiftSet == {0, 1}

VARIABLES
    conv,   \* the conversion round trip: inputs, intermediate and result
    ids,    \* the identity allocator: xen_domid, xen_mutex, constructing threads
    dom,    \* the xen_domain of this vcpu: initdom(), sod_info()
    xen,    \* the fields of the xen object
    vcpu,   \* the xen_vcpu: return register, preemption timer, installed handlers
    mem,    \* guest memory: shared_info page, time-info mirror, runstate area
    tsc,    \* the hardware time stamp counter (x64::read_tsc)
    ret,    \* what the last handler did: its input and its outcome
    budget, \* how many more virtualization exits the run takes
    obs,    \* history the properties refer to: what was stopped, what was registered
    wr,     \* a writer in the middle of update_wallclock / update_runstate
    rd,     \* a guest reader of a seqlock-published area
    hist    \* the payloads published by completed updates

vars == <<conv, ids, dom, xen, vcpu, mem, tsc, ret, budget, obs, wr, rd, hist>>
machVars == <<dom, xen, vcpu, mem, tsc, ret, budget, obs>>
seqVars == <<wr, rd, hist>>

\* ---------------------------------------------------------- word arithmetic
Wrap(x) == x % Word
Narrow32(x) == x % Half
Shl(x, n) == (x * (2 ^ n)) % Word
Shr(x, n) == x \div (2 ^ n)
Sub64(a, b) == (a - b) % Word
Add64(a, b) == (a + b) % Word
RECURSIVE BitOr(_, _)
BitOr(a, b) ==
    IF a = 0 THEN b
    ELSE IF b = 0 THEN a
    ELSE (IF a % 2 = 1 \/ b % 2 = 1 THEN 1 ELSE 0) + 2 * BitOr(a \div 2, b \div 2)

\* ------------------------------------------------- time conversion library
s_to_ns(sec) == Wrap(sec * NsPerSec)

tsc_to_ns(ticks, shft, mult) == Shr(Wrap(Shl(ticks, shft) * mult), HalfBits)

ns_to_tsc(ns, shft, mult) == Shr(Shl(ns, HalfBits) \div mult, shft)

tsc_to_pet(t, pet_shift) == Shr(t, pet_shift)

\* The same conversions over the unbounded integers (no wrap-around): the
\* only loss is the truncation of the two divisions.
ideal_tsc_to_ns(ticks, shft, mult) == ((ticks * (2 ^ shft)) * mult) \div Half
ideal_ns_to_tsc(ns, shft, mult) == ((ns * Half) \div mult) \div (2 ^ shft)
\* Truncation loses less than one ns, i.e. at most Half/mult + 1 shifted ticks.
TruncBound(shft, mult) == ((Half \div mult) + 1) \div (2 ^ shft) + 1

\* ------------------------------------------------------ idle (unused) parts
conv0 == [pc |-> "off", ticks |-> 0, shft |-> 0, mult |-> 1, ns |-> 0, back |-> 0]
ids0 == [xen_domid |-> 0, xen_mutex |-> 0, thr |-> <<>>]
MachIdle ==
    /\ dom = "off" /\ xen = "off" /\ vcpu = "off" /\ mem = "off"
    /\ tsc = 0 /\ ret = "off" /\ budget = 0 /\ obs = "off"
SeqIdle == wr = "off" /\ rd = "off" /\ hist = {}

\* ======================================================================
\* Conversion round trip: the inputs are drawn in Init, the two actions
\* apply tsc_to_ns and then ns_to_tsc.
\* ======================================================================
InitConv ==
    /\ conv \in [pc : {"in"}, ticks : U64, shft : 0 .. (HalfBits - 1),
                 mult : 1 .. (Word - 1), ns : {0}, back : {0}]
    /\ ids = ids0
    /\ MachIdle /\ SeqIdle

ConvToNs ==
    /\ conv.pc = "in"
    /\ conv' = [conv EXCEPT !.pc = "ns",
                            !.ns = tsc_to_ns(conv.ticks, conv.shft, conv.mult)]
    /\ UNCHANGED <<ids, machVars, seqVars>>

ConvToTsc ==
    /\ conv.pc = "ns"
    /\ conv' = [conv EXCEPT !.pc = "done",
                            !.back = ns_to_tsc(conv.ns, conv.shft, conv.mult)]
    /\ UNCHANGED <<ids, machVars, seqVars>>

NextConv == ConvToNs \/ ConvToTsc

SpecConv == InitConv /\ [][NextConv]_vars

\* C8: for all ticks, shift and mult the round trip ns_to_tsc(tsc_to_ns(t))
\* returns t up to the rounding error of the integer truncation alone.
C8_RoundTripBounded ==
    conv.pc = "done" =>
        /\ conv.back <= conv.ticks
        /\ conv.ticks - conv.back <= TruncBound(conv.shft, conv.mult)

\* Without wrap-around the truncation bound does hold for the same inputs.
IdealRoundTripBounded ==
    conv.pc = "in" =>
        LET b == ideal_ns_to_tsc(ideal_tsc_to_ns(conv.ticks, conv.shft, conv.mult),
                                 conv.shft, conv.mult)
        IN  b <= conv.ticks /\ conv.ticks - b <= TruncBound(conv.shft, conv.mult)

\* ======================================================================
\* Identity allocator: make_xen_ids, run by the constructor of each xen
\* object.  Constructions may run concurrently; ++xen_domid is a load and
\* a store, both inside the std::lock_guard.
\* ======================================================================
Threads == 1 .. MaxDoms
\* the id of a thread that has not been given one yet
NoId == 0 - 1

\* std::lock_guard<std::mutex> lock(xen_mutex) can be taken
CanLock_NoMutex(m) == TRUE
CanLock(m) == m = 0

\* the branch of make_xen_ids taken for the initial domain
InitdomIds(th) ==
    [th EXCEPT !.domid = 0, !.vcpuid = 0, !.apicid = 0, !.acpiid = 0, !.pc = "done"]

\* ++xen_domid on uint32_t
PreIncrement(v) == (v + 1) % Half

InitIds ==
    /\ \E mgmt \in SUBSET Threads :
         ids = [xen_domid |-> 0, xen_mutex |-> 0,
                thr |-> [t \in Threads |->
                          [pc |-> "start", initdom |-> (t \in mgmt), tmp |-> 0,
                           domid |-> NoId, vcpuid |-> NoId, apicid |-> NoId,
                           acpiid |-> NoId]]]
    /\ conv = conv0
    /\ MachIdle /\ SeqIdle

IdStart(t) ==
    /\ ids.thr[t].pc = "start"
    /\ ids' = IF ids.thr[t].initdom
              THEN [ids EXCEPT !.thr[t] = InitdomIds(@)]
              ELSE [ids EXCEPT !.thr[t].pc = "lock"]
    /\ UNCHANGED <<conv, machVars, seqVars>>

IdLock(t) ==
    /\ ids.thr[t].pc = "lock"
    /\ CanLock(ids.xen_mutex)
    /\ ids' = [ids EXCEPT !.xen_mutex = t, !.thr[t].pc = "load"]
    /\ UNCHANGED <<conv, machVars, seqVars>>

IdLoad(t) ==
    /\ ids.thr[t].pc = "load"
    /\ ids' = [ids EXCEPT !.thr[t].tmp = ids.xen_domid, !.thr[t].pc = "store"]
    /\ UNCHANGED <<conv, machVars, seqVars>>

IdStore(t) ==
    /\ ids.thr[t].pc = "store"
    /\ ids' = [ids EXCEPT !.xen_domid = PreIncrement(ids.thr[t].tmp),
                          !.thr[t].domid = PreIncrement(ids.thr[t].tmp),
                          !.thr[t].pc = "rest"]
    /\ UNCHANGED <<conv, machVars, seqVars>>

IdRest(t) ==
    /\ ids.thr[t].pc = "rest"
    /\ ids' = [ids EXCEPT !.thr[t].vcpuid = 0, !.thr[t].apicid = 0,
                          !.thr[t].acpiid = 0, !.thr[t].pc = "done",
                          !.xen_mutex = 0]
    /\ UNCHANGED <<conv, machVars, seqVars>>

NextIds ==
    \E t \in Threads : IdStart(t) \/ IdLock(t) \/ IdLoad(t) \/ IdStore(t) \/ IdRest(t)

SpecIds == InitIds /\ [][NextIds]_vars

IdAssigned == {t \in Threads : ~ids.thr[t].initdom /\ ids.thr[t].domid # NoId}

\* C5: the management domain gets {0,0,0,0} and leaves the counter alone; the
\* non-management constructions, in any interleaving, get the domids 1..N
\* without repeats and vcpuid = apicid = acpiid = 0.
C5_IdsUnique ==
    /\ {ids.thr[t].domid : t \in IdAssigned} = 1 .. Cardinality(IdAssigned)
    /\ ids.xen_domid = Cardinality(IdAssigned)
    /\ \A t \in Threads :
         ids.thr[t].pc = "done" =>
           /\ ids.thr[t].vcpuid = 0 /\ ids.thr[t].apicid = 0 /\ ids.thr[t].acpiid = 0
           /\ ids.thr[t].initdom => ids.thr[t].domid = 0
           /\ ~ids.thr[t].initdom => ids.thr[t].domid \in 1 .. MaxDoms

C5_Witness ==
    /\ \A t \in Threads : ids.thr[t].pc = "done"
    /\ Cardinality(IdAssigned) >= 2
    /\ \E t \in Threads : ids.thr[t].initdom

\* ======================================================================
\* The vcpu machine: the xen object, its vcpu and the guest memory it
\* publishes to.  A handler is an operator from the state
\* s = [xen, vcpu, mem, res, eff] to the state it leaves; res is what the
\* handler returns and eff the calls it made on its collaborators.
\* ======================================================================
RunStates == {"running", "runnable", "blocked", "offline"}
\* XEN_RUNSTATE_UPDATE, the top bit of state_entry_time
TopBit == Word \div 2

\* uint32_t version counters, scaled to VerBits bits
VerMod == 2 ^ VerBits
Inc32(v) == (v + 1) % VerMod

Vti0 ==
    [version |-> 0, tsc_timestamp |-> 0, system_time |-> 0,
     tsc_to_system_mul |-> 0, tsc_shift |-> 0, flags |-> {}]

\* ---- seqlock writes of update_wallclock, one operator per store
wc_begin_absent(m) == m
wc_begin(m) == [m EXCEPT !.shinfo.wc_version = Inc32(@)]
wc_end(m) == [m EXCEPT !.shinfo.wc_version = Inc32(@)]
wc_store(m, f, x, y) ==
    CASE f = "wc_sec"    -> [m EXCEPT !.shinfo.wc_sec = Narrow32(x)]
      [] f = "wc_sec_hi" -> [m EXCEPT !.shinfo.wc_sec_hi = Narrow32(Shr(x, HalfBits))]
      [] f = "wc_nsec"   -> [m EXCEPT !.shinfo.wc_nsec = Narrow32(y)]

\* x = s_to_ns(secs) + nsecs - system_time, before do_div
wc_delta(time) == Sub64(Add64(s_to_ns(time.secs), time.nsecs), time.system_time)
\* do_div(n, base): the quotient left in n, the remainder returned
do_div_quot(n, base) == n \div Narrow32(base)
do_div_rem(n, base) == n % Narrow32(base)

update_wallclock(m, time) ==
    LET x == do_div_quot(wc_delta(time), NsPerSec)
        y == do_div_rem(wc_delta(time), NsPerSec)
    IN  wc_end(wc_store(wc_store(wc_store(wc_begin(m), "wc_sec", x, y),
                                 "wc_sec_hi", x, y), "wc_nsec", x, y))

\* ---- seqlock writes of update_runstate on the kernel time info
kvti_begin_absent(m) == m
kvti_begin(m) == [m EXCEPT !.shinfo.vti.version = Inc32(@)]
kvti_end(m) == [m EXCEPT !.shinfo.vti.version = Inc32(@)]
kvti_store(m, f, next, prev, shft, mult) ==
    CASE f = "system_time" ->
           [m EXCEPT !.shinfo.vti.system_time =
                         Add64(@, tsc_to_ns(Sub64(next, prev), shft, mult))]
      [] f = "tsc_timestamp" -> [m EXCEPT !.shinfo.vti.tsc_timestamp = next]

\* ---- and on the registered mirror
uvti_begin(m) == [m EXCEPT !.uvti.version = Inc32(@)]
uvti_end(m) == [m EXCEPT !.uvti.version = Inc32(@)]
uvti_store(m, f, next) ==
    CASE f = "system_time" -> [m EXCEPT !.uvti.system_time = m.shinfo.vti.system_time]
      [] f = "tsc_timestamp" -> [m EXCEPT !.uvti.tsc_timestamp = next]

\* ---- the runstate area
rs_account_from_zero(m, new_state) ==
    [m EXCEPT !.runstate.time[m.runstate.state] = Add64(@, m.shinfo.vti.system_time),
              !.runstate.state = new_state]
rs_account(m, new_state) ==
    LET old_state == m.runstate.state
        old_entry == m.runstate.state_entry_time
    IN  [m EXCEPT !.runstate.time[old_state] =
                      Add64(@, Sub64(m.shinfo.vti.system_time, old_entry)),
                  !.runstate.state = new_state]
rs_entry_mark(m) == [m EXCEPT !.runstate.state_entry_time = TopBit]
rs_entry_or(m) ==
    [m EXCEPT !.runstate.state_entry_time = BitOr(@, m.shinfo.vti.system_time)]
rs_entry_clear(m) ==
    [m EXCEPT !.runstate.state_entry_time = IF @ >= TopBit THEN @ - TopBit ELSE @]
rs_entry_plain(m) == [m EXCEPT !.runstate.state_entry_time = m.shinfo.vti.system_time]

\* ---- handler plumbing
Res(s, r) == [s EXCEPT !.res = r]
SetRax(s, v) == [s EXCEPT !.vcpu.rax = v]
Eff(s, e) == [s EXCEPT !.eff = Append(@, e)]

\* ---- Clock & runstate publisher
update_runstate(s, new_state, next) ==
    IF ~s.xen.m_shinfo THEN s
    ELSE
      LET k  == s.mem.shinfo.vti
          m1 == kvti_end(
                  kvti_store(
                    kvti_store(kvti_begin(s.mem), "system_time", next,
                               k.tsc_timestamp, k.tsc_shift, k.tsc_to_system_mul),
                    "tsc_timestamp", next,
                    k.tsc_timestamp, k.tsc_shift, k.tsc_to_system_mul))
      IN  IF ~s.xen.m_user_vti THEN [s EXCEPT !.mem = m1]
          ELSE
            LET m2 == uvti_end(uvti_store(uvti_store(uvti_begin(m1),
                                 "system_time", next), "tsc_timestamp", next))
            IN  IF ~s.xen.m_runstate THEN [s EXCEPT !.mem = m2]
                ELSE
                  LET m3 == rs_account(m2, new_state)
                  IN  [s EXCEPT !.mem =
                          IF s.xen.m_runstate_assist
                          THEN rs_entry_clear(rs_entry_or(rs_entry_mark(m3)))
                          ELSE rs_entry_plain(m3)]

init_shared_info(s, now) ==
    LET ns  == tsc_to_ns(Sub64(now, s.dom.sod.tsc), s.xen.m_tsc_shift, s.xen.m_tsc_mul)
        wc_nsec == Add64(ns, s.dom.sod.wc_nsec)
        wc_sec  == Add64(ns \div NsPerSec, s.dom.sod.wc_sec)
    IN  [s EXCEPT !.xen.m_shinfo = TRUE,
                  !.mem.shinfo.vti.flags = @ \cup {"XEN_PVCLOCK_TSC_STABLE_BIT"},
                  !.mem.shinfo.vti.tsc_shift = s.xen.m_tsc_shift,
                  !.mem.shinfo.vti.tsc_to_system_mul = s.xen.m_tsc_mul,
                  !.mem.shinfo.wc_nsec = Narrow32(wc_nsec),
                  !.mem.shinfo.wc_sec = Narrow32(wc_sec),
                  !.mem.shinfo.wc_sec_hi = Narrow32(Shr(wc_sec, HalfBits)),
                  !.mem.shinfo.vti.tsc_timestamp = now,
                  !.vcpu.hdlrs.resume = @ + 1]

\* ---- Singleshot timer emulator
\* stop_timer that flips m_pet_enabled instead of clearing it
stop_timer_flip(s) == [s EXCEPT !.vcpu.pet_on = FALSE, !.xen.m_pet_enabled = ~@]
stop_timer(s) == [s EXCEPT !.vcpu.pet_on = FALSE, !.xen.m_pet_enabled = FALSE]

program_timer(s, pet) ==
    [s EXCEPT !.vcpu.pet = pet, !.vcpu.pet_on = TRUE, !.xen.m_pet_enabled = TRUE]

deadline_passed_strict(vti, sst) == vti.system_time > sst.timeout_abs_ns
\* the deadline of the request is not after the current system_time
deadline_passed(vti, sst) == vti.system_time >= sst.timeout_abs_ns

\* rc is the int set_timer returns, or how it ended otherwise
set_timer(s, in) ==
    LET vti == s.mem.shinfo.vti
        sst == in.sst
    IN  IF ~in.map THEN [s |-> s, rc |-> "throw"]
        ELSE IF ~s.xen.m_shinfo THEN [s |-> s, rc |-> "fault"]
        ELSE IF deadline_passed(vti, sst)
        THEN IF sst.future
             THEN [s |-> s, rc |-> "-ETIME"]
             ELSE [s |-> program_timer(s, 0), rc |-> "0"]
        ELSE [s |-> program_timer(s,
                       tsc_to_pet(ns_to_tsc(Sub64(sst.timeout_abs_ns, vti.system_time),
                                            vti.tsc_shift, vti.tsc_to_system_mul),
                                  s.xen.m_pet_shift)),
              rc |-> "0"]

\* the lazy installation of the timer handlers in handle_vcpu_op
add_pet_hdlrs(s) ==
    IF s.xen.m_pet_hdlrs_added THEN s
    ELSE [s EXCEPT !.vcpu.hdlrs.pet = @ + 1,
                   !.vcpu.hdlrs.hlt = @ + 1,
                   !.vcpu.hdlrs.exit = @ + 1,
                   !.vcpu.hdlrs.wrmsr_tsc_deadline = @ + 1,
                   !.xen.m_pet_hdlrs_added = TRUE]

vcpu_op_expects_none(s, in) == TRUE
\* expects(m_vcpu->rsi() == vcpuid)
vcpu_op_expects(s, in) == in.rsi = s.xen.vcpuid

handle_vcpu_op(s, in) ==
    IF ~vcpu_op_expects(s, in) THEN Res(s, "assert")
    ELSE
    CASE in.rdi = "VCPUOP_stop_periodic_timer" -> Res(SetRax(s, "0"), "true")
      [] in.rdi = "VCPUOP_stop_singleshot_timer" ->
           Res(SetRax(stop_timer(s), "0"), "true")
      [] in.rdi = "VCPUOP_set_singleshot_timer" ->
           LET r == set_timer(s, in)
           IN  IF r.rc \in {"throw", "fault"} THEN Res(s, r.rc)
               ELSE Res(add_pet_hdlrs(SetRax(r.s, r.rc)), "true")
      [] in.rdi = "VCPUOP_register_vcpu_time_memory_area" ->
           IF ~s.xen.m_shinfo THEN Res(s, "assert")
           ELSE IF ~in.map THEN Res(s, "throw")
           ELSE Res(SetRax([s EXCEPT !.xen.m_user_vti = TRUE,
                                     !.mem.uvti = s.mem.shinfo.vti], "0"), "true")
      [] in.rdi = "VCPUOP_register_runstate_memory_area" ->
           IF ~in.map THEN Res(s, "throw")
           ELSE IF ~s.xen.m_shinfo THEN Res(s, "fault")
           ELSE Res(SetRax(
                  [s EXCEPT !.xen.m_runstate = TRUE,
                            !.mem.runstate.state = "running",
                            !.mem.runstate.state_entry_time = s.mem.shinfo.vti.system_time,
                            !.mem.runstate.time["running"] = s.mem.shinfo.vti.system_time],
                  "0"), "true")
      [] OTHER -> Res(s, "false")

handle_vm_assist(s, in) ==
    IF in.rdi # "VMASST_CMD_enable" THEN Res(s, "false")
    ELSE IF in.type = "VMASST_TYPE_runstate_update_flag"
         THEN Res(SetRax([s EXCEPT !.xen.m_runstate_assist = TRUE], "0"), "true")
         ELSE Res(s, "false")

\* ---- Hypercall dispatcher
\* the sub-opcodes each group routes to its collaborator
XENMEM_ops ==
    {"XENMEM_memory_map", "XENMEM_add_to_physmap", "XENMEM_decrease_reservation",
     "XENMEM_get_sharing_freed_pages", "XENMEM_get_sharing_shared_pages"}
XENVER_ops ==
    {"XENVER_version", "XENVER_extraversion", "XENVER_compile_info",
     "XENVER_capabilities", "XENVER_changeset", "XENVER_platform_parameters",
     "XENVER_get_features", "XENVER_pagesize", "XENVER_guest_handle",
     "XENVER_commandline", "XENVER_build_id"}
EVTCHNOP_ops ==
    {"EVTCHNOP_init_control", "EVTCHNOP_set_priority", "EVTCHNOP_alloc_unbound",
     "EVTCHNOP_expand_array", "EVTCHNOP_bind_virq", "EVTCHNOP_send",
     "EVTCHNOP_bind_interdomain", "EVTCHNOP_close", "EVTCHNOP_bind_vcpu"}
GNTTABOP_ops == {"GNTTABOP_query_size", "GNTTABOP_set_version"}
PHYSDEVOP_ops == {"PHYSDEVOP_pci_device_add"}

\* try { switch (rdi) { case ...: return collaborator(); default: return false; } }
\* catchall({ return false; })
try_group(s, in, ops) ==
    IF in.rdi \in ops
    THEN Res(s, IF in.sub = "throw" THEN "false" ELSE in.sub)
    ELSE Res(s, "false")

handle_memory_op(s, in) == try_group(s, in, XENMEM_ops)
handle_xen_version(s, in) == try_group(s, in, XENVER_ops)
handle_event_channel_op(s, in) == try_group(s, in, EVTCHNOP_ops)
handle_grant_table_op(s, in) == try_group(s, in, GNTTABOP_ops)
handle_physdev_op(s, in) == try_group(s, in, PHYSDEVOP_ops)

valid_cb_via(via) ==
    /\ via.type = "HVM_PARAM_CALLBACK_TYPE_VECTOR"
    /\ ~(via.vector < 32 \/ via.vector > 255)

get_param_expects_initdom(s) == s.dom.initdom
\* expects(!m_dom->initdom()) of HVMOP_get_param
get_param_expects(s) == ~s.dom.initdom

handle_hvm_op(s, in) ==
    CASE in.rdi = "HVMOP_set_param" ->
           IF ~in.map THEN Res(s, "false")
           ELSE IF in.index = "HVM_PARAM_CALLBACK_IRQ"
           THEN IF valid_cb_via(in.via)
                THEN IF in.sub = "throw" THEN Res(s, "false")
                     ELSE Res(SetRax(Eff(s, "set_callback_via"), "0"), "true")
                ELSE Res(SetRax(s, "-EINVAL"), "true")
           ELSE Res(s, "false")
      [] in.rdi = "HVMOP_get_param" ->
           IF ~get_param_expects(s) THEN Res(s, "assert")
           ELSE Res(SetRax(s, "-ENOSYS"), "true")
      [] in.rdi = "HVMOP_pagetable_dying" -> Res(SetRax(s, "-ENOSYS"), "true")
      [] OTHER -> Res(s, "false")

\* map_arg of the control structure, then the collaborator: no try block
handle_sysctl(s, in) == IF ~in.map THEN Res(s, "throw") ELSE Res(s, in.sub)
handle_domctl(s, in) == IF ~in.map THEN Res(s, "throw") ELSE Res(s, in.sub)

\* expects(m_dom->initdom()) of XENPF_get_cpuinfo
get_cpuinfo_expects(s) == s.dom.initdom

handle_platform_op(s, in) ==
    IF ~in.map THEN Res(s, "throw")
    ELSE IF ~in.ver THEN Res(SetRax(s, "-EACCES"), "true")
    ELSE
    CASE in.cmd = "XENPF_get_cpuinfo" ->
           IF ~get_cpuinfo_expects(s) THEN Res(s, "assert")
           ELSE Res(SetRax(Eff(s, "pcpu_info"), "0"), "true")
      [] in.cmd = "XENPF_settime64" ->
           IF in.time.mbz THEN Res(SetRax(s, "-EINVAL"), "true")
           ELSE IF ~s.xen.m_shinfo THEN Res(s, "fault")
           ELSE Res(SetRax([s EXCEPT !.mem = update_wallclock(s.mem, in.time)], "0"),
                    "true")
      [] OTHER -> Res(s, "false")

\* expects(m_dom->initdom()) of handle_xsm_op
xsm_expects(s) == s.dom.initdom

handle_xsm_op(s, in) ==
    IF ~xsm_expects(s) THEN Res(s, "assert")
    ELSE IF ~in.map THEN Res(s, "throw")
    ELSE IF ~in.ver THEN Res(SetRax(s, "-EACCES"), "true")
    ELSE Res(SetRax(s, "-EACCES"), "true")

\* expects(m_dom->initdom()) of handle_console_io
console_expects(s) == s.dom.initdom

handle_console_io(s, in) ==
    IF ~console_expects(s) THEN Res(s, "assert")
    ELSE IF ~in.map THEN Res(s, "throw")
    ELSE IF in.rdi \in {"CONSOLEIO_read", "CONSOLEIO_write"}
         THEN IF in.sub = "throw" THEN Res(s, "throw")
              ELSE Res(SetRax(s, "n"), "true")
         ELSE Res(s, "false")

Opcodes ==
    {"__HYPERVISOR_memory_op", "__HYPERVISOR_xen_version", "__HYPERVISOR_hvm_op",
     "__HYPERVISOR_event_channel_op", "__HYPERVISOR_grant_table_op",
     "__HYPERVISOR_platform_op", "__HYPERVISOR_console_io", "__HYPERVISOR_sysctl",
     "__HYPERVISOR_domctl", "__HYPERVISOR_xsm_op", "__HYPERVISOR_physdev_op",
     "__HYPERVISOR_vcpu_op", "__HYPERVISOR_vm_assist"}

hypercall(s, in) ==
    CASE in.rax = "__HYPERVISOR_memory_op" -> handle_memory_op(s, in)
      [] in.rax = "__HYPERVISOR_xen_version" -> handle_xen_version(s, in)
      [] in.rax = "__HYPERVISOR_hvm_op" -> handle_hvm_op(s, in)
      [] in.rax = "__HYPERVISOR_event_channel_op" -> handle_event_channel_op(s, in)
      [] in.rax = "__HYPERVISOR_grant_table_op" -> handle_grant_table_op(s, in)
      [] in.rax = "__HYPERVISOR_platform_op" -> handle_platform_op(s, in)
      [] in.rax = "__HYPERVISOR_console_io" -> handle_console_io(s, in)
      [] in.rax = "__HYPERVISOR_sysctl" -> handle_sysctl(s, in)
      [] in.rax = "__HYPERVISOR_domctl" -> handle_domctl(s, in)
      [] in.rax = "__HYPERVISOR_xsm_op" -> handle_xsm_op(s, in)
      [] in.rax = "__HYPERVISOR_physdev_op" -> handle_physdev_op(s, in)
      [] in.rax = "__HYPERVISOR_vcpu_op" -> handle_vcpu_op(s, in)
      [] in.rax = "__HYPERVISOR_vm_assist" -> handle_vm_assist(s, in)
      [] OTHER -> Res(s, "false")

\* ---- exits other than VMCALL
vmexit_save_tsc(s, now) ==
    IF s.xen.m_pet_enabled THEN [s EXCEPT !.xen.m_tsc_at_exit = now] ELSE s

steal_pet_ticks(s) ==
    IF s.xen.m_tsc_at_exit = 0 THEN s
    ELSE LET pet == s.vcpu.pet
             stolen_tsc == Sub64(s.mem.shinfo.vti.tsc_timestamp, s.xen.m_tsc_at_exit)
             stolen_pet == Shr(stolen_tsc, s.xen.m_pet_shift)
         IN  [s EXCEPT !.vcpu.pet = IF stolen_pet >= pet THEN 0 ELSE pet - stolen_pet]

resume_update(s, now) ==
    LET s1 == update_runstate(s, "running", now)
    IN  IF s1.xen.m_pet_enabled THEN steal_pet_ticks(s1) ELSE s1

\* every resume delegate that init_shared_info added runs on a resume
RECURSIVE run_resume_delegates(_, _, _)
run_resume_delegates(s, n, now) ==
    IF n = 0 THEN s ELSE run_resume_delegates(resume_update(s, now), n - 1, now)

\* handle_pet without its stop_timer
handle_pet_armed(s) == Res(Eff(s, "queue_virq_VIRQ_TIMER"), "true")
handle_pet(s) == Res(Eff(stop_timer(s), "queue_virq_VIRQ_TIMER"), "true")

handle_tsc_deadline_if_armed(s, in) ==
    IF s.xen.m_pet_enabled THEN Res(s, "true")
    ELSE Res([s EXCEPT !.vcpu.tsc_deadline = TRUE], "passthrough")
\* the write is emulated by a handler that only logs: the MSR keeps its value
handle_tsc_deadline(s, in) == Res(s, "true")

\* emulate_wrmsr(0x6E0, ...) was called: the write is routed to handle_tsc_deadline
tsc_deadline_trapped(s) == s.vcpu.hdlrs.wrmsr_tsc_deadline > 0

handle_hlt(s, in, now) ==
    IF ~in.if_flag THEN Res(s, "false")
    ELSE LET s1 == Eff(Eff(s, "advance"), "queue_virq_VIRQ_TIMER")
             s2 == Eff(update_runstate(s1, "blocked", now), "blocking_by_sti_disable")
             yield == Wrap(Shl(s2.vcpu.pet, s2.xen.m_pet_shift) * 1000) \div s2.xen.m_tsc_khz
             s3 == Eff(Eff(Eff(s2, "save_xstate"), "parent_load"), "return_yield")
         IN  Res([s3 EXCEPT !.vcpu.yield = yield, !.vcpu.ctx = "parent"], "true")

\* handle_interrupt with the parent context loaded before the extended state
\* of this vcpu is saved
handle_interrupt_load_first(s, in, now) ==
    CASE in.msi = "none" ->
           LET s1 == update_runstate(Eff(Eff(s, "parent_load"), "save_xstate"),
                                     "runnable", now)
               s2 == Eff(Eff(s1, "parent_queue_external_interrupt"),
                         "return_resume_after_interrupt")
           IN  Res([s2 EXCEPT !.vcpu.ctx = "parent"], "true")
      [] in.msi = "nopdev" -> Res(s, "assert")
      [] in.msi = "gone" -> Res(s, "true")
      [] in.msi = "self" ->
           Res(Eff(Eff(s, "queue_external_interrupt"), "put_guest"), "true")
      [] in.msi = "other" ->
           Res(Eff(Eff(s, "push_external_interrupt_other"), "put_guest"), "true")

handle_interrupt(s, in, now) ==
    CASE in.msi = "none" ->
           LET s1 == update_runstate(Eff(s, "save_xstate"), "runnable", now)
               s2 == Eff(Eff(Eff(s1, "parent_load"), "parent_queue_external_interrupt"),
                         "return_resume_after_interrupt")
           IN  Res([s2 EXCEPT !.vcpu.ctx = "parent"], "true")
      [] in.msi = "nopdev" -> Res(s, "assert")
      [] in.msi = "gone" -> Res(s, "true")
      [] in.msi = "self" ->
           Res(Eff(Eff(s, "queue_external_interrupt"), "put_guest"), "true")
      [] in.msi = "other" ->
           Res(Eff(Eff(s, "push_external_interrupt_other"), "put_guest"), "true")

\* ---- construction
\* make_xen_ids with the per-vcpu counters that the code has commented out
make_xen_ids_counted(initdom, counter) ==
    IF initdom
    THEN [domid |-> 0, vcpuid |-> 0, apicid |-> 0, acpiid |-> 0, counter |-> counter]
    ELSE [domid |-> PreIncrement(counter), vcpuid |-> PreIncrement(counter),
          apicid |-> PreIncrement(counter), acpiid |-> PreIncrement(counter),
          counter |-> PreIncrement(counter)]
make_xen_ids(initdom, counter) ==
    IF initdom
    THEN [domid |-> 0, vcpuid |-> 0, apicid |-> 0, acpiid |-> 0, counter |-> counter]
    ELSE [domid |-> PreIncrement(counter), vcpuid |-> 0, apicid |-> 0, acpiid |-> 0,
          counter |-> PreIncrement(counter)]

xen_ctor(d, khz, pet_shift) ==
    LET id == make_xen_ids(d.initdom, 0)
    IN  [domid |-> id.domid, vcpuid |-> id.vcpuid, apicid |-> id.apicid,
         acpiid |-> id.acpiid,
         m_tsc_khz |-> khz, m_tsc_mul |-> Shl(NsPerSec, HalfBits) \div khz,
         m_tsc_shift |-> 0, m_pet_shift |-> pet_shift,
         m_shinfo |-> FALSE, m_user_vti |-> FALSE, m_runstate |-> FALSE,
         m_runstate_assist |-> FALSE, m_pet_enabled |-> FALSE,
         m_pet_hdlrs_added |-> FALSE, m_tsc_at_exit |-> 0]

\* ======================================================================
\* The machine: one guest vcpu.  A virtualization exit runs the exit
\* handlers and the handler of its reason in one step; the resume that
\* follows runs the resume delegates.  A fatal assertion or fault stops it.
\* ======================================================================
In0 ==
    [rax |-> "none", rdi |-> "none", rsi |-> 0, map |-> TRUE, sub |-> "true",
     ver |-> TRUE, cmd |-> "none", type |-> "none", index |-> "none",
     via |-> [type |-> "none", vector |-> 0],
     sst |-> [timeout_abs_ns |-> 0, future |-> FALSE],
     time |-> [secs |-> 0, nsecs |-> 0, system_time |-> 0, mbz |-> FALSE],
     if_flag |-> FALSE, msi |-> "none"]

Outcomes == {"true", "false", "throw"}
Fatal == {"assert", "fault"}

Cur == [dom |-> dom, xen |-> xen, vcpu |-> vcpu, mem |-> mem, res |-> "none", eff |-> <<>>]

\* the exit handlers (vmexit_save_tsc, once installed) run first on every exit
Entered == IF vcpu.hdlrs.exit > 0 THEN vmexit_save_tsc(Cur, tsc) ELSE Cur

GuestExits == vcpu.ctx = "guest" /\ budget > 0

\* exit_tsc is the tsc at the most recent virtualization exit
Obs0 == [stopped |-> FALSE, reg_at |-> 0, reg_others |-> 0, exit_tsc |-> 0]

\* the time the accumulators other than RUNSTATE_running hold
rs_others(m) ==
    Add64(Add64(m.runstate.time["runnable"], m.runstate.time["blocked"]),
          m.runstate.time["offline"])

Observe(op, in, s) ==
    IF op = "hypercall" /\ in.rax = "__HYPERVISOR_vcpu_op" /\ s.res = "true"
    THEN CASE in.rdi = "VCPUOP_stop_singleshot_timer" -> [obs EXCEPT !.stopped = TRUE]
           [] in.rdi = "VCPUOP_set_singleshot_timer" /\ s.vcpu.rax = "0" ->
                [obs EXCEPT !.stopped = FALSE]
           [] in.rdi = "VCPUOP_register_runstate_memory_area" ->
                [obs EXCEPT !.reg_at = s.mem.runstate.state_entry_time,
                            !.reg_others = rs_others(s.mem)]
           [] OTHER -> obs
    ELSE obs

Commit(op, in, s) ==
    /\ xen' = s.xen
    /\ vcpu' = [s.vcpu EXCEPT !.ctx = IF s.res \in Fatal THEN "dead"
                                       ELSE IF @ = "guest" THEN "handled" ELSE @]
    /\ mem' = s.mem
    /\ ret' = [op |-> op, in |-> in, res |-> s.res, eff |-> s.eff]
    /\ budget' = budget - 1
    /\ obs' = [Observe(op, in, s) EXCEPT !.exit_tsc = tsc]
    /\ UNCHANGED <<dom, tsc, conv, ids, seqVars>>

Vmcall(in) == GuestExits /\ Commit("hypercall", in, hypercall(Entered, in))

Mem0 ==
    [shinfo |-> [wc_version |-> 0, wc_sec |-> 0, wc_sec_hi |-> 0, wc_nsec |-> 0,
                 vti |-> Vti0],
     uvti |-> Vti0,
     runstate |-> [state |-> "running", state_entry_time |-> 0,
                   time |-> [r \in RunStates |-> 0]]]

Vcpu0 ==
    [rax |-> "unset", pet |-> 0, pet_on |-> FALSE, ctx |-> "guest",
     tsc_deadline |-> FALSE, yield |-> 0,
     hdlrs |-> [pet |-> 0, hlt |-> 0, exit |-> 0, wrmsr_tsc_deadline |-> 0,
                resume |-> 0]]

Ret0 == [op |-> "none", in |-> In0, res |-> "none", eff |-> <<>>]

Dom0(i) == [initdom |-> i, sod |-> [tsc |-> 0, wc_sec |-> 3, wc_nsec |-> NsPerSec - 1]]

\* the state after xen::xen.  The runstate area is guest memory the core has
\* not written yet: one of its accumulators holds what the guest left there (g).
Fresh(i, khz, ps, g) ==
    [dom |-> Dom0(i), xen |-> xen_ctor(Dom0(i), khz, ps), vcpu |-> Vcpu0,
     mem |-> [Mem0 EXCEPT !.runstate.time["blocked"] = g],
     res |-> "none", eff |-> <<>>]

\* the state after the shared-info page was mapped at tsc = 1 and the vcpu resumed
Booted(i, khz, ps, g) ==
    run_resume_delegates(init_shared_info(Fresh(i, khz, ps, g), 1), 1, 1)

InitMachOn(S, b) ==
    /\ \E s \in S : dom = s.dom /\ xen = s.xen /\ vcpu = s.vcpu /\ mem = s.mem
    /\ tsc = 1
    /\ ret = Ret0
    /\ budget = b
    /\ obs = Obs0
    /\ conv = conv0 /\ ids = ids0 /\ SeqIdle

Tick ==
    /\ vcpu.ctx # "dead"
    /\ tsc < MaxTsc
    /\ tsc' = tsc + 1
    /\ UNCHANGED <<dom, xen, vcpu, mem, ret, budget, obs, conv, ids, seqVars>>

Resume ==
    /\ vcpu.ctx \in {"handled", "parent"}
    /\ LET s == run_resume_delegates(Cur, vcpu.hdlrs.resume, tsc)
       IN  /\ xen' = s.xen
           /\ vcpu' = [s.vcpu EXCEPT !.ctx = "guest"]
           /\ mem' = s.mem
           /\ ret' = [Ret0 EXCEPT !.op = "resume"]
    /\ UNCHANGED <<dom, tsc, budget, obs, conv, ids, seqVars>>

\* xenmem maps the shared-info page while it handles XENMEM_add_to_physmap
InitSharedInfo ==
    /\ GuestExits
    /\ vcpu.hdlrs.resume < MaxInits
    /\ Commit("init_shared_info", In0, Res(init_shared_info(Entered, tsc), "true"))

TryGroups ==
    [rax \in {"__HYPERVISOR_memory_op", "__HYPERVISOR_xen_version",
              "__HYPERVISOR_event_channel_op", "__HYPERVISOR_grant_table_op",
              "__HYPERVISOR_physdev_op"} |->
       CASE rax = "__HYPERVISOR_memory_op" -> XENMEM_ops
         [] rax = "__HYPERVISOR_xen_version" -> XENVER_ops
         [] rax = "__HYPERVISOR_event_channel_op" -> EVTCHNOP_ops
         [] rax = "__HYPERVISOR_grant_table_op" -> GNTTABOP_ops
         [] rax = "__HYPERVISOR_physdev_op" -> PHYSDEVOP_ops]

HcTryGroup ==
    \E rax \in DOMAIN TryGroups, sub \in Outcomes :
      \E rdi \in TryGroups[rax] \cup {"unknown"} :
        Vmcall([In0 EXCEPT !.rax = rax, !.rdi = rdi, !.sub = sub])

HcHvmSetParam ==
    \E map \in BOOLEAN, sub \in {"true", "throw"},
       index \in {"HVM_PARAM_CALLBACK_IRQ", "unknown"},
       via \in [type : {"HVM_PARAM_CALLBACK_TYPE_VECTOR", "HVM_PARAM_CALLBACK_TYPE_GSI"},
                vector : {31, 32}] :
      Vmcall([In0 EXCEPT !.rax = "__HYPERVISOR_hvm_op", !.rdi = "HVMOP_set_param",
                         !.map = map, !.sub = sub, !.index = index, !.via = via])

HcHvmOp ==
    \E rdi \in {"HVMOP_get_param", "HVMOP_pagetable_dying", "unknown"} :
      Vmcall([In0 EXCEPT !.rax = "__HYPERVISOR_hvm_op", !.rdi = rdi])

HcCtl ==
    \E rax \in {"__HYPERVISOR_sysctl", "__HYPERVISOR_domctl"},
       map \in BOOLEAN, sub \in Outcomes :
      Vmcall([In0 EXCEPT !.rax = rax, !.rdi = "ctl", !.map = map, !.sub = sub])

WcTimes ==
    [secs : {1, 20}, nsecs : {0, NsPerSec - 1}, system_time : {0, 1}, mbz : BOOLEAN]

HcSettime ==
    \E map \in BOOLEAN, ver \in BOOLEAN, time \in WcTimes :
      Vmcall([In0 EXCEPT !.rax = "__HYPERVISOR_platform_op", !.rdi = "xpf",
                         !.cmd = "XENPF_settime64", !.map = map, !.ver = ver,
                         !.time = time])

HcPlatformOp ==
    \E cmd \in {"XENPF_get_cpuinfo", "unknown"}, map \in BOOLEAN, ver \in BOOLEAN :
      Vmcall([In0 EXCEPT !.rax = "__HYPERVISOR_platform_op", !.rdi = "xpf",
                         !.cmd = cmd, !.map = map, !.ver = ver])

HcXsmOp ==
    \E cmd \in {"FLASK_SID_TO_CONTEXT", "unknown"}, map \in BOOLEAN, ver \in BOOLEAN :
      Vmcall([In0 EXCEPT !.rax = "__HYPERVISOR_xsm_op", !.rdi = "flop", !.cmd = cmd,
                         !.map = map, !.ver = ver])

HcConsoleIo ==
    \E rdi \in {"CONSOLEIO_read", "CONSOLEIO_write", "unknown"},
       map \in BOOLEAN, sub \in {"true", "throw"} :
      Vmcall([In0 EXCEPT !.rax = "__HYPERVISOR_console_io", !.rdi = rdi, !.map = map,
                         !.sub = sub])

VCPUOP_ops ==
    {"VCPUOP_stop_periodic_timer", "VCPUOP_stop_singleshot_timer",
     "VCPUOP_set_singleshot_timer", "VCPUOP_register_vcpu_time_memory_area",
     "VCPUOP_register_runstate_memory_area"}

VcpuOpCall(ops, rsis, maps) ==
    \E rdi \in ops, rsi \in rsis, map \in maps :
      Vmcall([In0 EXCEPT !.rax = "__HYPERVISOR_vcpu_op", !.rdi = rdi, !.rsi = rsi,
                         !.map = map])

SetTimerCall(rsis, maps, deadlines) ==
    \E rsi \in rsis, map \in maps,
       sst \in [timeout_abs_ns : deadlines, future : BOOLEAN] :
      Vmcall([In0 EXCEPT !.rax = "__HYPERVISOR_vcpu_op",
                         !.rdi = "VCPUOP_set_singleshot_timer", !.rsi = rsi,
                         !.map = map, !.sst = sst])

HcVcpuOp ==
    VcpuOpCall((VCPUOP_ops \ {"VCPUOP_set_singleshot_timer"}) \cup {"unknown"},
               {0, 1}, BOOLEAN)

HcSetTimer == SetTimerCall({0, 1}, BOOLEAN, 0 .. MaxDeadline)

HcVmAssist ==
    \E rdi \in {"VMASST_CMD_enable", "VMASST_CMD_disable"},
       type \in {"VMASST_TYPE_runstate_update_flag", "unknown"} :
      Vmcall([In0 EXCEPT !.rax = "__HYPERVISOR_vm_assist", !.rdi = rdi, !.type = type])

HcUnknown == Vmcall([In0 EXCEPT !.rax = "unknown"])

\* a guest WRMSR to IA32_TSC_DEADLINE (0x6E0); untrapped, it reaches the MSR
WrmsrTscDeadline ==
    /\ GuestExits
    /\ IF tsc_deadline_trapped(Entered)
       THEN Commit("wrmsr_tsc_deadline", In0, handle_tsc_deadline(Entered, In0))
       ELSE Commit("wrmsr_tsc_deadline", In0,
                   Res([Entered EXCEPT !.vcpu.tsc_deadline = TRUE], "passthrough"))

\* the preemption timer counted down to zero in the guest
PetExpiry ==
    /\ GuestExits
    /\ vcpu.pet_on /\ vcpu.hdlrs.pet > 0
    /\ Commit("pet", In0, handle_pet(Entered))

Hlt ==
    /\ GuestExits
    /\ vcpu.hdlrs.hlt > 0
    /\ \E f \in BOOLEAN :
         Commit("hlt", [In0 EXCEPT !.if_flag = f],
                handle_hlt(Entered, [In0 EXCEPT !.if_flag = f], tsc))

InterruptOn(msis) ==
    /\ GuestExits
    /\ \E msi \in msis :
         Commit("interrupt", [In0 EXCEPT !.msi = msi],
                handle_interrupt(Entered, [In0 EXCEPT !.msi = msi], tsc))

Interrupt == InterruptOn({"none", "nopdev", "gone", "self", "other"})

\* ---- the whole machine at one reading of the tsc, from construction or from
\* a mapped shared-info page
InitStates ==
    {Fresh(i, 10, 0, 0) : i \in BOOLEAN} \cup {Booted(i, 10, 0, 0) : i \in BOOLEAN}

Init == InitMachOn(InitStates, MaxExits)

Next ==
    \/ HcTryGroup \/ HcHvmSetParam \/ HcHvmOp \/ HcCtl \/ HcSettime \/ HcPlatformOp
    \/ HcXsmOp \/ HcConsoleIo \/ HcVcpuOp \/ HcSetTimer \/ HcVmAssist \/ HcUnknown
    \/ InitSharedInfo \/ WrmsrTscDeadline \/ PetExpiry \/ Hlt \/ Interrupt
    \/ Resume

Spec == Init /\ [][Next]_vars

\* ---- the singleshot timer: arming, stopping, expiry, the TSC-deadline MSR
TmSetTimer == SetTimerCall({0}, {TRUE}, 0 .. MaxDeadline)

TmStopTimer == VcpuOpCall({"VCPUOP_stop_singleshot_timer"}, {0}, {TRUE})

TimerStates == {Booted(FALSE, khz, ps, 0) : khz \in TscKhzSet, ps \in PetShiftSet}

InitTimer == InitMachOn(TimerStates, MaxTimerExits)

NextTimer ==
    \/ TmSetTimer \/ TmStopTimer \/ WrmsrTscDeadline \/ PetExpiry \/ Tick \/ Resume

SpecTimer == InitTimer /\ [][NextTimer]_vars

\* ---- the runstate area: registration, then the updates of resume, interrupt and hlt
RsRegister ==
    VcpuOpCall({"VCPUOP_register_vcpu_time_memory_area",
                "VCPUOP_register_runstate_memory_area"}, {0}, {TRUE})

RsSetTimer == SetTimerCall({0}, {TRUE}, {MaxDeadline})

RsVmAssist ==
    Vmcall([In0 EXCEPT !.rax = "__HYPERVISOR_vm_assist", !.rdi = "VMASST_CMD_enable",
                       !.type = "VMASST_TYPE_runstate_update_flag"])

RsInterrupt == InterruptOn({"none"})

RunStatesInit == {Booted(FALSE, 10, 0, g) : g \in {0, 1}}

InitRun == InitMachOn(RunStatesInit, MaxRunExits)

NextRun ==
    \/ RsRegister \/ RsSetTimer \/ RsVmAssist \/ RsInterrupt \/ Hlt \/ Tick \/ Resume

SpecRun == InitRun /\ [][NextRun]_vars

\* ---- what the last hypercall was
Called == ret.op = "hypercall"
CalledGroup(rax) == Called /\ ret.in.rax = rax

TryGroupOpcodes == DOMAIN TryGroups

\* the sub-opcode (or command field) of the call is not one its group handles
UnknownSub ==
    \/ ret.in.rax \in TryGroupOpcodes /\ ret.in.rdi = "unknown"
    \/ ret.in.rax \in {"__HYPERVISOR_hvm_op", "__HYPERVISOR_console_io",
                       "__HYPERVISOR_vcpu_op"} /\ ret.in.rdi = "unknown"
    \/ ret.in.rax \in {"__HYPERVISOR_platform_op", "__HYPERVISOR_xsm_op"}
         /\ ret.in.cmd = "unknown"
    \/ ret.in.rax = "__HYPERVISOR_vm_assist"
         /\ (ret.in.rdi # "VMASST_CMD_enable" \/ ret.in.type = "unknown")

\* C1: no exception ever propagates out of xen::hypercall: a sub-handler or
\* an argument mapping that raises makes the hypercall return false.
C1_NoExceptionEscapes == Called => ret.res # "throw"

AdminCall ==
    \/ CalledGroup("__HYPERVISOR_console_io")
    \/ CalledGroup("__HYPERVISOR_xsm_op")
    \/ CalledGroup("__HYPERVISOR_hvm_op") /\ ret.in.rdi = "HVMOP_get_param"
    \/ CalledGroup("__HYPERVISOR_platform_op") /\ ret.in.cmd = "XENPF_get_cpuinfo"
         /\ ret.in.map /\ ret.in.ver

\* C10 (as stated): each administrative operation asserts the initial domain:
\* the assertion passes from it and fails fatally from any other domain.
C10_AdminAssertsInitdom ==
    AdminCall => (ret.res = "assert" <=> ~dom.initdom)

\* C10 (amended): console I/O and the XSM op assert the initial domain on
\* entry, and XENPF_get_cpuinfo asserts it once its argument is mapped and the
\* interface version matched (a mapping that fails raises, a version that
\* differs is handled with -EACCES, in any domain); HVMOP_get_param asserts
\* the opposite: it fails fatally from the initial domain and from any other
\* domain it passes and the call is handled with -ENOSYS.
C10_AdminAssertions ==
    /\ CalledGroup("__HYPERVISOR_console_io") \/ CalledGroup("__HYPERVISOR_xsm_op")
         => (ret.res = "assert" <=> ~dom.initdom)
    /\ CalledGroup("__HYPERVISOR_platform_op") /\ ret.in.cmd = "XENPF_get_cpuinfo" =>
         IF ~ret.in.map THEN ret.res = "throw"
         ELSE IF ~ret.in.ver THEN ret.res = "true" /\ vcpu.rax = "-EACCES"
         ELSE (ret.res = "assert" <=> ~dom.initdom)
    /\ CalledGroup("__HYPERVISOR_hvm_op") /\ ret.in.rdi = "HVMOP_get_param" =>
         IF dom.initdom THEN ret.res = "assert" /\ vcpu.ctx = "dead"
         ELSE ret.res = "true" /\ vcpu.rax = "-ENOSYS"

C10_Witness ==
    /\ CalledGroup("__HYPERVISOR_hvm_op") /\ ret.in.rdi = "HVMOP_get_param"
    /\ dom.initdom /\ ret.res = "assert" /\ vcpu.ctx = "dead"

\* ---- the runstate accounting
RsTotal ==
    Add64(Add64(mem.runstate.time["running"], rs_others(mem)),
          Sub64(mem.shinfo.vti.system_time, mem.runstate.state_entry_time))

SetTimerPastStep ==
    /\ vcpu.ctx = "guest" /\ xen.m_shinfo
    /\ ret'.op = "hypercall"
    /\ ret'.in.rax = "__HYPERVISOR_vcpu_op"
    /\ ret'.in.rdi = "VCPUOP_set_singleshot_timer"
    /\ ret'.in.rsi = xen.vcpuid /\ ret'.in.map
    /\ ret'.in.sst.timeout_abs_ns <= mem.shinfo.vti.system_time

ArmedWithZero == vcpu'.rax = "0" /\ vcpu'.pet = 0 /\ vcpu'.pet_on /\ xen'.m_pet_enabled

\* C6 (as stated): a past deadline with the future flag returns -ETIME and
\* leaves the timer Disarmed; without the flag the preemption timer is
\* programmed with zero ticks and enabled, and the timer is Armed.
C6_PastDeadlineDisarmed ==
    [][SetTimerPastStep =>
         IF ret'.in.sst.future
         THEN vcpu'.rax = "-ETIME" /\ ~xen'.m_pet_enabled /\ ~vcpu'.pet_on
         ELSE ArmedWithZero]_vars

\* C6 (amended): a past deadline with the future flag returns -ETIME and
\* leaves the timer as it was (Armed stays Armed, with the ticks programmed
\* before); without the flag the preemption timer is programmed with zero
\* ticks and enabled, and the timer is Armed.
C6_PastDeadlineUnchanged ==
    [][SetTimerPastStep =>
         IF ret'.in.sst.future
         THEN /\ vcpu'.rax = "-ETIME"
              /\ xen'.m_pet_enabled = xen.m_pet_enabled
              /\ vcpu'.pet_on = vcpu.pet_on
              /\ vcpu'.pet = vcpu.pet
         ELSE ArmedWithZero]_vars

C6_Witness ==
    /\ CalledGroup("__HYPERVISOR_vcpu_op")
    /\ ret.in.rdi = "VCPUOP_set_singleshot_timer" /\ ret.in.sst.future
    /\ ret.res = "true" /\ vcpu.rax = "-ETIME"
    /\ xen.m_pet_enabled /\ vcpu.pet_on /\ vcpu.pet > 0

\* ---- the TSC-deadline MSR
WroteTscDeadline == ret.op = "wrmsr_tsc_deadline"
Rejected == ret.res = "true"
Succeeded == ret.res = "passthrough" /\ vcpu.tsc_deadline

\* C7 (as stated): a write to the TSC-deadline MSR while the singleshot
\* timer is armed is rejected; a write after the singleshot timer has been
\* stopped succeeds.
C7_RejectedOnlyWhileArmed ==
    WroteTscDeadline =>
      /\ xen.m_pet_enabled => Rejected
      /\ obs.stopped /\ ~xen.m_pet_enabled => Succeeded

\* C7 (amended): a write to the TSC-deadline MSR while the singleshot timer
\* is armed is rejected, and so is every write after the first
\* set_singleshot_timer call, also once the timer has been stopped: the trap
\* that call installs stays and does not look at the timer state.
C7_RejectedOnceTrapped ==
    WroteTscDeadline =>
      /\ xen.m_pet_enabled => Rejected
      /\ xen.m_pet_hdlrs_added => Rejected

C7_Witness ==
    /\ WroteTscDeadline /\ Rejected
    /\ obs.stopped /\ ~xen.m_pet_enabled /\ xen.m_pet_hdlrs_added

\* ======================================================================
\* The seqlock on the wallclock, store by store: update_wallclock on the
\* vcpu of the caller, a guest reader on another vcpu.  rd.incs counts the
\* increments of wc_version since the reader's first read of it; a pc of 0
\* is idle, the reader's pc of 5 is done.
\* ======================================================================
\* the settime64 requests the writer is called with
WcRequests ==
    {[secs |-> 1, nsecs |-> 0, system_time |-> 0, mbz |-> FALSE],
     [secs |-> 20, nsecs |-> NsPerSec - 1, system_time |-> 0, mbz |-> FALSE]}

WcFields == <<"wc_sec", "wc_sec_hi", "wc_nsec">>

WcTriple(m) == <<m.shinfo.wc_sec, m.shinfo.wc_sec_hi, m.shinfo.wc_nsec>>

Rd0 == [pc |-> 0, v0 |-> 0, v1 |-> 0, got |-> <<>>, incs |-> 0]

InWindow == rd.pc \in 1 .. 4

\* the version counter is taken at most once around within one read window
\* the reader's verdict is looked at before the writer goes on
Writing == rd.pc # 5

CountInc == IF InWindow THEN [rd EXCEPT !.incs = @ + 1] ELSE rd
MayInc == InWindow => rd.incs < VerMod

InitWc ==
    /\ conv = conv0 /\ ids = ids0
    /\ dom = "off" /\ xen = "off" /\ vcpu = "off" /\ ret = "off" /\ obs = "off"
    /\ tsc = 0 /\ budget = 0
    /\ mem = Booted(TRUE, 10, 0, 0).mem
    /\ wr = [pc |-> 0, x |-> 0, y |-> 0]
    /\ rd = Rd0
    /\ hist = {WcTriple(mem)}

WcUnchanged == UNCHANGED <<conv, ids, dom, xen, vcpu, tsc, ret, budget, obs>>

\* m_shinfo->wc_version++; wmb(); x and y are computed
WcBegin ==
    /\ Writing
    /\ wr.pc = 0 /\ MayInc
    /\ \E time \in WcRequests :
         wr' = [pc |-> 1, x |-> do_div_quot(wc_delta(time), NsPerSec),
                y |-> do_div_rem(wc_delta(time), NsPerSec)]
    /\ mem' = wc_begin(mem)
    /\ rd' = CountInc
    /\ UNCHANGED hist /\ WcUnchanged

\* the stores of wc_sec, wc_sec_hi and wc_nsec, in program order
WcStore ==
    /\ Writing
    /\ wr.pc \in 1 .. 3
    /\ mem' = wc_store(mem, WcFields[wr.pc], wr.x, wr.y)
    /\ wr' = [wr EXCEPT !.pc = @ + 1]
    /\ UNCHANGED <<rd, hist>> /\ WcUnchanged

\* wmb(); m_shinfo->wc_version++
WcEnd ==
    /\ Writing
    /\ wr.pc = 4 /\ MayInc
    /\ mem' = wc_end(mem)
    /\ wr' = [wr EXCEPT !.pc = 0]
    /\ rd' = CountInc
    /\ hist' = hist \cup {WcTriple(mem)}
    /\ WcUnchanged

WcRdBegin ==
    /\ rd.pc = 0
    /\ rd' = [Rd0 EXCEPT !.pc = 1, !.v0 = mem.shinfo.wc_version]
    /\ UNCHANGED <<mem, wr, hist>> /\ WcUnchanged

WcRdField ==
    /\ rd.pc \in 1 .. 3
    /\ rd' = [rd EXCEPT !.pc = @ + 1, !.got = Append(@, WcTriple(mem)[rd.pc])]
    /\ UNCHANGED <<mem, wr, hist>> /\ WcUnchanged

WcRdEnd ==
    /\ rd.pc = 4
    /\ rd' = [rd EXCEPT !.pc = 5, !.v1 = mem.shinfo.wc_version]
    /\ UNCHANGED <<mem, wr, hist>> /\ WcUnchanged

RdAgain ==
    /\ rd.pc = 5
    /\ rd' = Rd0
    /\ UNCHANGED <<mem, tsc, xen, wr, hist, conv, ids, dom, vcpu, ret, budget, obs>>

NextWc == WcBegin \/ WcStore \/ WcEnd \/ WcRdBegin \/ WcRdField \/ WcRdEnd \/ RdAgain

SpecWc == InitWc /\ [][NextWc]_vars

\* the reader accepts: both reads of the version are equal and even
Accepted == rd.pc = 5 /\ rd.v0 = rd.v1 /\ rd.v0 % 2 = 0

\* C2 (as stated): in any interleaving, the triple an accepting reader got
\* is one a single update_wallclock call wrote (or the one in place before
\* the first call), never a mix.
C2_NoTornWallclock == Accepted => <<rd.got[1], rd.got[2], rd.got[3]>> \in hist

\* C2 (amended): the same, for a read window in which wc_version was
\* incremented fewer than 2^32 times (fewer than 2^31 update_wallclock calls
\* completed): the 32-bit version is the same again after that many.
C2_NoTornWallclockUnlessWrapped ==
    Accepted /\ rd.incs < VerMod => <<rd.got[1], rd.got[2], rd.got[3]>> \in hist

C2_Witness ==
    /\ Accepted /\ rd.incs = 0
    /\ rd.v0 >= 4
    /\ rd.got \in hist /\ rd.got # WcTriple(Booted(TRUE, 10, 0, 0).mem)

\* ======================================================================
\* The seqlock on the time info, store by store: update_runstate on the vcpu
\* that owns the page, a guest reader of the slot-0 copy ("k") or of the
\* registered mirror ("u").  The writer's pc: 0 idle, 1..3 in the kernel
\* copy, 4..7 in the mirror.
\* ======================================================================
VtiOf(m, c) == IF c = "k" THEN m.shinfo.vti ELSE m.uvti

VtiPair(m, c) == <<c, VtiOf(m, c).system_time, VtiOf(m, c).tsc_timestamp>>

\* the vcpu after the shared-info page was mapped, and after the mirror was
\* registered as well
Mirrored ==
    run_resume_delegates(
      handle_vcpu_op(Booted(FALSE, 10, 0, 0),
                     [In0 EXCEPT !.rax = "__HYPERVISOR_vcpu_op",
                                 !.rdi = "VCPUOP_register_vcpu_time_memory_area"]),
      1, 1)

VtiStates == {Booted(FALSE, 10, 0, 0), Mirrored}

Copies == IF xen.m_user_vti THEN {"k", "u"} ELSE {"k"}

InitVti ==
    /\ conv = conv0 /\ ids = ids0
    /\ dom = "off" /\ vcpu = "off" /\ ret = "off" /\ obs = "off" /\ budget = 0
    /\ tsc = 1
    /\ \E s \in VtiStates : xen = s.xen /\ mem = s.mem
    /\ wr = [pc |-> 0, prev |-> 0, shft |-> 0, mult |-> 0, next |-> 0]
    /\ rd = [Rd0 EXCEPT !.got = <<"k">>]
    /\ hist = {VtiPair(mem, c) : c \in Copies}

VtiUnchanged == UNCHANGED <<conv, ids, dom, xen, vcpu, ret, budget, obs>>

VtiTick ==
    /\ Writing
    /\ tsc < MaxTsc
    /\ tsc' = tsc + 1
    /\ UNCHANGED <<mem, wr, rd, hist>> /\ VtiUnchanged

CountIncOf(c) ==
    IF InWindow /\ rd.got[1] = c THEN [rd EXCEPT !.incs = @ + 1] ELSE rd
MayIncOf(c) == InWindow /\ rd.got[1] = c => rd.incs < VerMod

\* mult, shft and prev are read; kvti->version++; wmb()
VtiBegin ==
    /\ Writing
    /\ wr.pc = 0 /\ xen.m_shinfo /\ MayIncOf("k")
    /\ wr' = [pc |-> 1, prev |-> mem.shinfo.vti.tsc_timestamp,
              shft |-> mem.shinfo.vti.tsc_shift,
              mult |-> mem.shinfo.vti.tsc_to_system_mul, next |-> 0]
    /\ mem' = kvti_begin(mem)
    /\ rd' = CountIncOf("k")
    /\ UNCHANGED <<tsc, hist>> /\ VtiUnchanged

\* next = read_tsc(); kvti->system_time += tsc_to_ns(next - prev, shft, mult)
VtiStoreSystemTime ==
    /\ Writing
    /\ wr.pc = 1
    /\ mem' = kvti_store(mem, "system_time", tsc, wr.prev, wr.shft, wr.mult)
    /\ wr' = [wr EXCEPT !.pc = 2, !.next = tsc]
    /\ UNCHANGED <<tsc, rd, hist>> /\ VtiUnchanged

\* kvti->tsc_timestamp = next
VtiStoreTimestamp ==
    /\ Writing
    /\ wr.pc = 2
    /\ mem' = kvti_store(mem, "tsc_timestamp", wr.next, wr.prev, wr.shft, wr.mult)
    /\ wr' = [wr EXCEPT !.pc = 3]
    /\ UNCHANGED <<tsc, rd, hist>> /\ VtiUnchanged

\* wmb(); kvti->version++; the function returns here without a mirror
VtiEnd ==
    /\ Writing
    /\ wr.pc = 3 /\ MayIncOf("k")
    /\ mem' = kvti_end(mem)
    /\ wr' = [wr EXCEPT !.pc = IF xen.m_user_vti THEN 4 ELSE 0]
    /\ rd' = CountIncOf("k")
    /\ hist' = hist \cup {VtiPair(mem, "k")}
    /\ UNCHANGED tsc /\ VtiUnchanged

\* uvti->version++; wmb()
MirrorBegin ==
    /\ Writing
    /\ wr.pc = 4 /\ MayIncOf("u")
    /\ mem' = uvti_begin(mem)
    /\ wr' = [wr EXCEPT !.pc = 5]
    /\ rd' = CountIncOf("u")
    /\ UNCHANGED <<tsc, hist>> /\ VtiUnchanged

\* uvti->system_time = kvti->system_time; uvti->tsc_timestamp = next
MirrorStore ==
    /\ Writing
    /\ wr.pc \in {5, 6}
    /\ mem' = uvti_store(mem, IF wr.pc = 5 THEN "system_time" ELSE "tsc_timestamp",
                         wr.next)
    /\ wr' = [wr EXCEPT !.pc = @ + 1]
    /\ UNCHANGED <<tsc, rd, hist>> /\ VtiUnchanged

\* wmb(); uvti->version++
MirrorEnd ==
    /\ Writing
    /\ wr.pc = 7 /\ MayIncOf("u")
    /\ mem' = uvti_end(mem)
    /\ wr' = [wr EXCEPT !.pc = 0]
    /\ rd' = CountIncOf("u")
    /\ hist' = hist \cup {VtiPair(mem, "u")}
    /\ UNCHANGED tsc /\ VtiUnchanged

VtiRdBegin ==
    /\ rd.pc = 0
    /\ \E c \in Copies :
         rd' = [Rd0 EXCEPT !.pc = 2, !.v0 = VtiOf(mem, c).version, !.got = <<c>>]
    /\ UNCHANGED <<mem, tsc, wr, hist>> /\ VtiUnchanged

VtiRdField ==
    /\ rd.pc \in 2 .. 3
    /\ rd' = [rd EXCEPT !.pc = @ + 1,
                        !.got = Append(@, VtiPair(mem, rd.got[1])[rd.pc])]
    /\ UNCHANGED <<mem, tsc, wr, hist>> /\ VtiUnchanged

VtiRdEnd ==
    /\ rd.pc = 4
    /\ rd' = [rd EXCEPT !.pc = 5, !.v1 = VtiOf(mem, rd.got[1]).version]
    /\ UNCHANGED <<mem, tsc, wr, hist>> /\ VtiUnchanged

NextVti ==
    \/ VtiTick \/ VtiBegin \/ VtiStoreSystemTime \/ VtiStoreTimestamp \/ VtiEnd
    \/ MirrorBegin \/ MirrorStore \/ MirrorEnd
    \/ VtiRdBegin \/ VtiRdField \/ VtiRdEnd \/ RdAgain

SpecVti == InitVti /\ [][NextVti]_vars

\* C3 (as stated): in any interleaving, the (system_time, tsc_timestamp)
\* pair an accepting reader got from the kernel copy or from the mirror is
\* one a single update_runstate call wrote there (or the one in place
\* before the first call).
C3_NoTornTimeInfo ==
    Accepted => \E c \in Copies : rd.got[1] = c /\ rd.got \in hist

\* C3 (amended): the same, for a read window in which the version of the
\* copy read was incremented fewer than 2^32 times (fewer than 2^31
\* update_runstate calls completed).
C3_NoTornTimeInfoUnlessWrapped ==
    Accepted /\ rd.incs < VerMod => \E c \in Copies : rd.got[1] = c /\ rd.got \in hist

C3_Witness ==
    /\ Accepted /\ rd.incs = 0
    /\ rd.got[1] = "u" /\ rd.v0 >= 4
    /\ rd.got[2] > 0 /\ rd.got \in hist

\* ======================================================================
\* The stores to the shared-info page, one by one: init_shared_info,
\* update_wallclock and the kernel part of update_runstate, which the vcpu
\* runs one call at a time.  ret names the store the last step made.
\* ======================================================================
\* the stores of init_shared_info, in program order
InitFields ==
    <<"flags", "tsc_shift", "tsc_to_system_mul", "wc_nsec", "wc_sec", "wc_sec_hi",
      "tsc_timestamp">>

\* one store of init_shared_info; now is the tsc it read before the wallclock
init_store(s, f, now) ==
    LET ns  == tsc_to_ns(Sub64(now, s.dom.sod.tsc), s.xen.m_tsc_shift, s.xen.m_tsc_mul)
        wc_nsec == Add64(ns, s.dom.sod.wc_nsec)
        wc_sec  == Add64(ns \div NsPerSec, s.dom.sod.wc_sec)
    IN  CASE f = "flags" ->
               [s EXCEPT !.mem.shinfo.vti.flags = @ \cup {"XEN_PVCLOCK_TSC_STABLE_BIT"}]
          [] f = "tsc_shift" -> [s EXCEPT !.mem.shinfo.vti.tsc_shift = s.xen.m_tsc_shift]
          [] f = "tsc_to_system_mul" ->
               [s EXCEPT !.mem.shinfo.vti.tsc_to_system_mul = s.xen.m_tsc_mul]
          [] f = "wc_nsec" -> [s EXCEPT !.mem.shinfo.wc_nsec = Narrow32(wc_nsec)]
          [] f = "wc_sec" -> [s EXCEPT !.mem.shinfo.wc_sec = Narrow32(wc_sec)]
          [] f = "wc_sec_hi" ->
               [s EXCEPT !.mem.shinfo.wc_sec_hi = Narrow32(Shr(wc_sec, HalfBits))]
          [] f = "tsc_timestamp" -> [s EXCEPT !.mem.shinfo.vti.tsc_timestamp = now]

Wr0 == [fn |-> "idle", pc |-> 0, now |-> 0, x |-> 0, y |-> 0,
        prev |-> 0, shft |-> 0, mult |-> 0]

NoStore == [op |-> "none", by |-> "none", field |-> "none"]
Store(by, f) == [op |-> "store", by |-> by, field |-> f]

PubStates == {Fresh(FALSE, khz, 0, 0) : khz \in TscKhzSet}

InitPub ==
    /\ \E s \in PubStates : dom = s.dom /\ xen = s.xen /\ vcpu = s.vcpu /\ mem = s.mem
    /\ tsc = 1
    /\ ret = NoStore
    /\ wr = Wr0
    /\ budget = 0 /\ obs = "off" /\ rd = "off" /\ hist = {}
    /\ conv = conv0 /\ ids = ids0

PubUnchanged == UNCHANGED <<conv, ids, dom, budget, obs, rd, hist>>

PubTick ==
    /\ tsc < MaxTsc
    /\ tsc' = tsc + 1
    /\ ret' = NoStore
    /\ UNCHANGED <<xen, vcpu, mem, wr>> /\ PubUnchanged

\* m_shinfo = m_vcpu->map_gpa_4k<struct shared_info>(shinfo_gpfn << 12)
PubInitMap ==
    /\ wr.fn = "idle"
    /\ vcpu.hdlrs.resume < MaxInits
    /\ xen' = [xen EXCEPT !.m_shinfo = TRUE]
    /\ wr' = [Wr0 EXCEPT !.fn = "init_shared_info", !.pc = 1]
    /\ ret' = NoStore
    /\ UNCHANGED <<vcpu, mem, tsc>> /\ PubUnchanged

\* the stores of init_shared_info; the tsc is read before the first store of
\* the wallclock, the resume delegate is added after the last store
PubInitStore ==
    /\ wr.fn = "init_shared_info"
    /\ LET f   == InitFields[wr.pc]
           now == IF f = "wc_nsec" THEN tsc ELSE wr.now
           s   == init_store(Cur, f, now)
       IN  /\ mem' = s.mem
           /\ ret' = Store("init_shared_info", f)
           /\ IF wr.pc = Len(InitFields)
              THEN wr' = Wr0 /\ vcpu' = [vcpu EXCEPT !.hdlrs.resume = @ + 1]
              ELSE wr' = [wr EXCEPT !.pc = @ + 1, !.now = now] /\ UNCHANGED vcpu
    /\ UNCHANGED <<xen, tsc>> /\ PubUnchanged

\* update_wallclock: m_shinfo->wc_version++; wmb(); x and y are computed
PubWcBegin ==
    /\ wr.fn = "idle" /\ xen.m_shinfo
    /\ \E time \in WcRequests :
         wr' = [Wr0 EXCEPT !.fn = "update_wallclock", !.pc = 1,
                           !.x = do_div_quot(wc_delta(time), NsPerSec),
                           !.y = do_div_rem(wc_delta(time), NsPerSec)]
    /\ mem' = wc_begin(mem)
    /\ ret' = NoStore
    /\ UNCHANGED <<xen, vcpu, tsc>> /\ PubUnchanged

PubWcStore ==
    /\ wr.fn = "update_wallclock" /\ wr.pc \in 1 .. 3
    /\ mem' = wc_store(mem, WcFields[wr.pc], wr.x, wr.y)
    /\ wr' = [wr EXCEPT !.pc = @ + 1]
    /\ ret' = Store("update_wallclock", WcFields[wr.pc])
    /\ UNCHANGED <<xen, vcpu, tsc>> /\ PubUnchanged

PubWcEnd ==
    /\ wr.fn = "update_wallclock" /\ wr.pc = 4
    /\ mem' = wc_end(mem)
    /\ wr' = Wr0
    /\ ret' = NoStore
    /\ UNCHANGED <<xen, vcpu, tsc>> /\ PubUnchanged

\* update_runstate: mult, shft and prev are read; kvti->version++; wmb()
PubRsBegin ==
    /\ wr.fn = "idle" /\ xen.m_shinfo
    /\ wr' = [Wr0 EXCEPT !.fn = "update_runstate", !.pc = 1,
                         !.prev = mem.shinfo.vti.tsc_timestamp,
                         !.shft = mem.shinfo.vti.tsc_shift,
                         !.mult = mem.shinfo.vti.tsc_to_system_mul]
    /\ mem' = kvti_begin(mem)
    /\ ret' = NoStore
    /\ UNCHANGED <<xen, vcpu, tsc>> /\ PubUnchanged

\* next = read_tsc(); kvti->system_time += ...; kvti->tsc_timestamp = next
PubRsStore ==
    /\ wr.fn = "update_runstate" /\ wr.pc \in 1 .. 2
    /\ LET f    == IF wr.pc = 1 THEN "system_time" ELSE "tsc_timestamp"
           next == IF wr.pc = 1 THEN tsc ELSE wr.now
       IN  /\ mem' = kvti_store(mem, f, next, wr.prev, wr.shft, wr.mult)
           /\ wr' = [wr EXCEPT !.pc = @ + 1, !.now = next]
           /\ ret' = Store("update_runstate", f)
    /\ UNCHANGED <<xen, vcpu, tsc>> /\ PubUnchanged

\* wmb(); kvti->version++; no mirror is registered: the function returns
PubRsEnd ==
    /\ wr.fn = "update_runstate" /\ wr.pc = 3
    /\ mem' = kvti_end(mem)
    /\ wr' = Wr0
    /\ ret' = NoStore
    /\ UNCHANGED <<xen, vcpu, tsc>> /\ PubUnchanged

NextPub ==
    \/ PubTick \/ PubInitMap \/ PubInitStore
    \/ PubWcBegin \/ PubWcStore \/ PubWcEnd
    \/ PubRsBegin \/ PubRsStore \/ PubRsEnd

SpecPub == InitPub /\ [][NextPub]_vars

WcPayload == {"wc_sec", "wc_sec_hi", "wc_nsec"}
VtiPayload ==
    {"tsc_timestamp", "system_time", "tsc_to_system_mul", "tsc_shift", "flags"}

\* the step stored to a wallclock field / to a payload field of the time info
StoresWc == ret'.op = "store" /\ ret'.field \in WcPayload
StoresVti == ret'.op = "store" /\ ret'.field \in VtiPayload

\* C11: every store to wc_sec, wc_sec_hi or wc_nsec is made while wc_version
\* is odd, and every store to a payload field of the slot-0 time info while
\* its version is odd, in init_shared_info as in update_wallclock and
\* update_runstate.
C11_StoresWhileOdd ==
    [][/\ StoresWc => mem.shinfo.wc_version % 2 = 1
       /\ StoresVti => mem.shinfo.vti.version % 2 = 1]_vars

\* the two updaters do keep to the protocol: only init_shared_info does not
UpdatersStoreWhileOdd ==
    [][ret'.op = "store" /\ ret'.by # "init_shared_info" =>
         /\ StoresWc => mem.shinfo.wc_version % 2 = 1
         /\ StoresVti => mem.shinfo.vti.version % 2 = 1]_vars

\* the stores of init_shared_info, taken one by one, leave what the call leaves
InitStoresAgree ==
    [][ret'.op = "store" /\ ret'.by = "init_shared_info" /\ wr'.fn = "idle" =>
         mem'.shinfo = init_shared_info(Cur, wr.now).mem.shinfo]_vars

\* ======================================================================
\* The time-info mirror: registration, the updates of resume and interrupt,
\* and the shared-info page mapped again.
\* ======================================================================
MrRegister == VcpuOpCall({"VCPUOP_register_vcpu_time_memory_area"}, {0}, {TRUE})

InitMirror == InitMachOn({Booted(FALSE, 10, 0, 0)}, MaxRunExits)

NextMirror == MrRegister \/ InitSharedInfo \/ RsInterrupt \/ Tick \/ Resume

SpecMirror == InitMirror /\ [][NextMirror]_vars

\* the payload of a vcpu_time_info: every field but the version
VtiPayloadOf(v) ==
    [tsc_timestamp |-> v.tsc_timestamp, system_time |-> v.system_time,
     tsc_to_system_mul |-> v.tsc_to_system_mul, tsc_shift |-> v.tsc_shift,
     flags |-> v.flags]

MirrorEqualsKernel ==
    xen.m_user_vti => VtiPayloadOf(mem.uvti) = VtiPayloadOf(mem.shinfo.vti)

\* update_runstate calls made by the step: one by handle_interrupt for a
\* vector of the host, one by each resume delegate
UpdateCalls ==
    IF budget' # budget /\ ret'.op = "interrupt" THEN 1
    ELSE IF vcpu.ctx # "guest" /\ vcpu'.ctx = "guest" THEN vcpu.hdlrs.resume
    ELSE 0

RaisedBy(v, w, n) == w.version = (v.version + n) % VerMod

VersionsRaisedByTwo ==
    xen.m_user_vti =>
      /\ RaisedBy(mem.shinfo.vti, mem'.shinfo.vti, 2 * UpdateCalls)
      /\ RaisedBy(mem.uvti, mem'.uvti, 2 * UpdateCalls)

\* C12: once a time-info mirror is registered, after every completed
\* operation of the vcpu its tsc_timestamp, system_time, tsc_to_system_mul,
\* tsc_shift and flags are those of the kernel slot-0 copy, and each
\* update_runstate call raises the version of both copies by exactly 2.
C12_MirrorFollowsKernel == [](MirrorEqualsKernel) /\ [][VersionsRaisedByTwo]_vars

\* the versions alone do move by 2 a call
C12_VersionsByTwo == [][VersionsRaisedByTwo]_vars

\* the mirror differs from the kernel copy only from an init_shared_info made
\* after the registration to the resume that follows it
MirrorStaleOnlyAfterInit ==
    MirrorEqualsKernel \/ (ret.op = "init_shared_info" /\ vcpu.ctx = "handled")

MirrorStale ==
    /\ xen.m_user_vti /\ ret.op = "init_shared_info"
    /\ mem.uvti.tsc_timestamp # mem.shinfo.vti.tsc_timestamp

\* ======================================================================
\* The slot of the shared-info vcpu_info array that vcpu_time() returns.
\* ======================================================================
\* the length of shared_info.vcpu_info
XEN_LEGACY_MAX_VCPUS == 32

\* &m_shinfo->vcpu_info[this->vcpuid].time: the index used
vcpu_time_index(x) == x.vcpuid

\* C13: for a xen object of the initial domain or of any other, in every
\* state after its construction, vcpu_time() is entry 0 of the vcpu_info
\* array: the vcpuid used as the index is 0, below XEN_LEGACY_MAX_VCPUS.
C13_VcpuTimeIsSlotZero ==
    /\ vcpu_time_index(xen) = 0
    /\ vcpu_time_index(xen) < XEN_LEGACY_MAX_VCPUS

C13_Witness ==
    /\ ~dom.initdom /\ xen.domid > 0
    /\ xen.m_shinfo /\ xen.m_user_vti
    /\ vcpu_time_index(xen) = 0

\* ======================================================================
\* The CPUID emulator of the version leaf, xen_leaf(1), which the
\* constructor adds: a CPUID exit with that leaf in rax runs xen_leaf1.
\* ======================================================================
XEN_MAJOR == 4
XEN_MINOR == 13
xen_leaf_base == 1073742080
xen_leaf(i) == xen_leaf_base + i

\* set_rax(0x00040D00); set_rbx(0); set_rcx(0); set_rdx(0); advance()
xen_leaf1(s) ==
    Res(Eff([s EXCEPT !.vcpu.rax = 265472, !.vcpu.rbx = 0, !.vcpu.rcx = 0,
                      !.vcpu.rdx = 0], "advance"), "true")

\* what the guest left in rbx, rcx and rdx before it executed CPUID
GuestRegs == {0, 1, 7}

CpuidStates ==
    {[Fresh(i, khz, ps, 0) EXCEPT
        !.vcpu = [rax |-> xen_leaf(1), rbx |-> b, rcx |-> c, rdx |-> d] @@ @] :
       i \in BOOLEAN, khz \in TscKhzSet, ps \in PetShiftSet,
       b \in GuestRegs, c \in GuestRegs, d \in GuestRegs}

InitCpuid == InitMachOn(CpuidStates, MaxExits)

\* a CPUID exit: the emulator added for the leaf in rax runs
CpuidLeaf1 ==
    /\ GuestExits
    /\ vcpu.rax = xen_leaf(1)
    /\ Commit("cpuid", [In0 EXCEPT !.rax = xen_leaf(1)], xen_leaf1(Entered))

\* the guest loads the leaf into rax again
GuestLoadsLeaf ==
    /\ vcpu.ctx = "guest" /\ vcpu.rax # xen_leaf(1)
    /\ \E b \in GuestRegs :
         vcpu' = [vcpu EXCEPT !.rax = xen_leaf(1), !.rbx = b]
    /\ UNCHANGED <<dom, xen, mem, tsc, ret, budget, obs, conv, ids, seqVars>>

NextCpuid == CpuidLeaf1 \/ GuestLoadsLeaf \/ Resume

SpecCpuid == InitCpuid /\ [][NextCpuid]_vars

\* C14: the emulator of leaf base+1 returns in rax the word
\* (XEN_MAJOR << 16) | XEN_MINOR of this build (4 and 13), with rbx, rcx and
\* rdx zero, and advances the instruction pointer.
C14_VersionWord ==
    ret.op = "cpuid" /\ vcpu.ctx = "handled" =>
      /\ vcpu.rax = BitOr(XEN_MAJOR * (2 ^ 16), XEN_MINOR)
      /\ vcpu.rbx = 0 /\ vcpu.rcx = 0 /\ vcpu.rdx = 0
      /\ ret.eff = <<"advance">>

\* what the code does return: the minor version in bits 8 to 15
VersionWordAsCoded ==
    ret.op = "cpuid" /\ vcpu.ctx = "handled" =>
      /\ vcpu.rax = BitOr(XEN_MAJOR * (2 ^ 16), XEN_MINOR * (2 ^ 8))
      /\ vcpu.rbx = 0 /\ vcpu.rcx = 0 /\ vcpu.rdx = 0
      /\ ret.eff = <<"advance">>

\* ======================================================================
\* The ticks a resume steals from the preemption timer.
\* ======================================================================
\* a step that resumes the vcpu: the resume delegates run
ResumeStep == vcpu.ctx \in {"handled", "parent"} /\ vcpu'.ctx = "guest"

\* the countdown less the tsc elapsed since t, in preemption-timer ticks
PetLess(pet, t, now, pet_shift) ==
    IF Shr(Sub64(now, t), pet_shift) >= pet THEN 0
    ELSE pet - Shr(Sub64(now, t), pet_shift)

\* C15: on every resume while the singleshot timer is armed, the programmed
\* countdown is reduced by exactly the tsc elapsed since the snapshot of the
\* most recent virtualization exit, shifted right by the preemption-timer
\* shift and floored at zero, for every sequence of set_timer, stop_timer,
\* exits and resumes: the snapshot is never one of an earlier exit.
C15_StolenSinceLastExit ==
    [][ResumeStep /\ xen.m_pet_enabled =>
         vcpu'.pet = PetLess(vcpu.pet, obs.exit_tsc, tsc, xen.m_pet_shift)]_vars

\* the reduction is the claimed one when the most recent exit found the
\* timer armed, so that vmexit_save_tsc took its snapshot
StolenSinceSnapshot ==
    [][ResumeStep /\ xen.m_pet_enabled /\ xen.m_tsc_at_exit = obs.exit_tsc =>
         vcpu'.pet = PetLess(vcpu.pet, obs.exit_tsc, tsc, xen.m_pet_shift)]_vars

\* re-armed after a stop: the snapshot in use is the one of an earlier exit
StaleSnapshot ==
    /\ vcpu.ctx = "handled" /\ xen.m_pet_enabled
    /\ ret.op = "hypercall" /\ ret.in.rdi = "VCPUOP_set_singleshot_timer"
    /\ xen.m_tsc_at_exit # 0 /\ xen.m_tsc_at_exit < obs.exit_tsc

\* with a snapshot in hand (m_tsc_at_exit # 0) the reduction is still not
\* always the one since the most recent exit
StolenSinceLastExitOnceSnapshot ==
    [][ResumeStep /\ xen.m_pet_enabled /\ xen.m_tsc_at_exit # 0 =>
         vcpu'.pet = PetLess(vcpu.pet, obs.exit_tsc, tsc, xen.m_pet_shift)]_vars

\* ======================================================================
\* The sub-steps of update_runstate.
\* ======================================================================
\* the new_state of the update_runstate call the step makes, if it makes one
NewState ==
    IF ResumeStep /\ vcpu.hdlrs.resume > 0 THEN "running"
    ELSE IF budget' # budget /\ ret'.op = "interrupt" /\ ret'.in.msi = "none"
    THEN "runnable"
    ELSE IF budget' # budget /\ ret'.op = "hlt" /\ ret'.res = "true" THEN "blocked"
    ELSE "none"

\* the runstate area after update_runstate(new_state) accounted for it
Accounted(new_state) ==
    LET old == mem.runstate.state
        now == mem'.shinfo.vti.system_time
    IN  /\ mem'.runstate.state = new_state
        /\ mem'.runstate.time[old] =
             Add64(mem.runstate.time[old], Sub64(now, mem.runstate.state_entry_time))
        /\ mem'.runstate.state_entry_time =
             IF xen.m_runstate_assist THEN now % TopBit ELSE now

\* C16: with the shared-info page mapped and a runstate area registered,
\* update_runstate(new_state) adds the elapsed time to the accumulator of the
\* previous state, sets state to new_state and writes state_entry_time,
\* whether or not a time-info mirror has been registered.
C16_RunstateWithoutMirror ==
    [][xen.m_shinfo /\ xen.m_runstate /\ NewState # "none" => Accounted(NewState)]_vars

\* it does so once the mirror is registered as well
RunstateWithMirror ==
    [][xen.m_shinfo /\ xen.m_user_vti /\ xen.m_runstate /\ NewState # "none" =>
         Accounted(NewState)]_vars

\* without a mirror update_runstate returns before the runstate area
RunstateSkippedWithoutMirror ==
    [][xen.m_shinfo /\ ~xen.m_user_vti /\ NewState # "none" =>
         mem'.runstate = mem.runstate]_vars

\* ======================================================================
\* The frame of a set_singleshot_timer call that fails.
\* ======================================================================
\* a step in which VCPUOP_set_singleshot_timer returned the timeout error
SetTimerFailedStep ==
    /\ budget' # budget
    /\ ret'.op = "hypercall" /\ ret'.in.rax = "__HYPERVISOR_vcpu_op"
    /\ ret'.in.rdi = "VCPUOP_set_singleshot_timer"
    /\ ret'.res = "true" /\ vcpu'.rax = "-ETIME"

TimerKept ==
    /\ xen'.m_pet_enabled = xen.m_pet_enabled
    /\ vcpu'.pet = vcpu.pet
    /\ vcpu'.pet_on = vcpu.pet_on

\* C17: a VCPUOP_set_singleshot_timer call that fails with the timeout error
\* changes nothing but the return register: the armed flag, the programmed
\* preemption-timer value, the hardware timer enable and the installed
\* handlers and MSR traps are after the call what they were before it.
C17_FailedSetTimerNoEffect ==
    [][SetTimerFailedStep => TimerKept /\ vcpu'.hdlrs = vcpu.hdlrs]_vars

\* the handlers and the trap are kept only when an earlier call installed them
FailedSetTimerInstalls ==
    [][SetTimerFailedStep =>
         /\ TimerKept
         /\ xen.m_pet_hdlrs_added => vcpu'.hdlrs = vcpu.hdlrs
         /\ ~xen.m_pet_hdlrs_added =>
              /\ vcpu'.hdlrs = [vcpu.hdlrs EXCEPT !.pet = 1, !.hlt = 1, !.exit = 1,
                                                  !.wrmsr_tsc_deadline = 1]
              /\ xen'.m_pet_hdlrs_added]_vars

\* ======================================================================
\* The wallclock the shared-info page publishes.
\* ======================================================================
\* the published wallclock in ns, over the unbounded integers
WcValue(m) ==
    (m.shinfo.wc_sec_hi * Half + m.shinfo.wc_sec) * NsPerSec + m.shinfo.wc_nsec

\* the start-of-day wallclock plus the tsc elapsed since, in ns
WcIntendedAtInit(d, x, now) ==
    d.sod.wc_sec * NsPerSec + d.sod.wc_nsec
      + ideal_tsc_to_ns(now - d.sod.tsc, x.m_tsc_shift, x.m_tsc_mul)

\* secs * 10^9 + nsecs - system_time of a settime64 request
WcIntendedAtSet(time) == time.secs * NsPerSec + time.nsecs - time.system_time

InitSharedInfoDone == ret.op = "init_shared_info" /\ vcpu.ctx = "handled"

SettimeDone ==
    /\ CalledGroup("__HYPERVISOR_platform_op") /\ ret.in.cmd = "XENPF_settime64"
    /\ ret.res = "true" /\ vcpu.rax = "0" /\ vcpu.ctx = "handled"

\* C18: after init_shared_info and after every update_wallclock the
\* published wallclock is a normalized split of the intended value:
\* wc_nsec is below 10^9 and (wc_sec_hi * 2^32 + wc_sec) * 10^9 + wc_nsec is
\* the intended wallclock in ns.
C18_WallclockNormalized ==
    /\ InitSharedInfoDone =>
         /\ mem.shinfo.wc_nsec < NsPerSec
         /\ WcValue(mem) = WcIntendedAtInit(dom, xen, obs.exit_tsc)
    /\ SettimeDone =>
         /\ mem.shinfo.wc_nsec < NsPerSec
         /\ WcValue(mem) = WcIntendedAtSet(ret.in.time)

\* update_wallclock does publish a normalized split
SettimeNormalized ==
    SettimeDone =>
      /\ mem.shinfo.wc_nsec < NsPerSec
      /\ WcValue(mem) = WcIntendedAtSet(ret.in.time)

\* init_shared_info publishes the right total while less than a second has
\* elapsed since start of day, though not a normalized nanosecond field
InitTotalBelowOneSecond ==
    InitSharedInfoDone
      /\ ideal_tsc_to_ns(obs.exit_tsc - dom.sod.tsc, xen.m_tsc_shift, xen.m_tsc_mul)
           < NsPerSec
      => WcValue(mem) = WcIntendedAtInit(dom, xen, obs.exit_tsc)

\* ======================================================================
\* The runstate area, store by store: the runstate section of
\* update_runstate on the vcpu that owns the area, with the runstate-update
\* assist negotiated, and a guest reader on another vcpu.  The writer's pc:
\* 0 idle, 1..5 before each of its five stores; budget counts the calls left.
\* ======================================================================
\* m_runstate->time[old_state] += kvti->system_time - old_entry
rs_add_time(m) ==
    [m EXCEPT !.runstate.time[m.runstate.state] =
                  Add64(@, Sub64(m.shinfo.vti.system_time, m.runstate.state_entry_time))]
\* m_runstate->state = new_state
rs_set_state(m, new_state) == [m EXCEPT !.runstate.state = new_state]

\* the vcpu with the page mapped, the mirror and the runstate area registered
\* and VMASST_TYPE_runstate_update_flag enabled
Assisted ==
    handle_vm_assist(
      handle_vcpu_op(Mirrored,
                     [In0 EXCEPT !.rax = "__HYPERVISOR_vcpu_op",
                                 !.rdi = "VCPUOP_register_runstate_memory_area"]),
      [In0 EXCEPT !.rax = "__HYPERVISOR_vm_assist", !.rdi = "VMASST_CMD_enable",
                  !.type = "VMASST_TYPE_runstate_update_flag"])

RsSnapshot(m) == <<m.runstate.state, m.runstate.state_entry_time, m.runstate.time>>

\* the new_state values update_runstate is called with
CallerStates == {"running", "runnable", "blocked"}

InitRsa ==
    /\ conv = conv0 /\ ids = ids0
    /\ dom = Assisted.dom /\ xen = Assisted.xen /\ vcpu = Assisted.vcpu
    /\ mem = Assisted.mem
    /\ tsc = 1 /\ ret = "off" /\ obs = "off" /\ budget = MaxTimerExits
    /\ wr = [pc |-> 0, new_state |-> "running"]
    /\ rd = Rd0
    /\ hist = {RsSnapshot(mem)}

RsaUnchanged == UNCHANGED <<conv, ids, dom, xen, vcpu, ret, obs>>

RsaTick ==
    /\ Writing /\ wr.pc = 0
    /\ tsc < MaxTsc
    /\ tsc' = tsc + 1
    /\ UNCHANGED <<mem, wr, rd, hist, budget>> /\ RsaUnchanged

\* update_runstate(new_state) up to the runstate section: the kernel time
\* info and the mirror are brought up to the tsc
RsaBegin ==
    /\ Writing /\ wr.pc = 0 /\ budget > 0
    /\ budget' = budget - 1
    /\ \E new_state \in CallerStates :
         /\ wr' = [pc |-> 1, new_state |-> new_state]
         /\ mem' = update_runstate([Cur EXCEPT !.xen.m_runstate = FALSE],
                                   new_state, tsc).mem
    /\ UNCHANGED <<tsc, rd, hist>> /\ RsaUnchanged

\* the five stores of the runstate section, in program order
RsaStore ==
    /\ Writing /\ wr.pc \in 1 .. 5
    /\ mem' = CASE wr.pc = 1 -> rs_add_time(mem)
                [] wr.pc = 2 -> rs_set_state(mem, wr.new_state)
                [] wr.pc = 3 -> rs_entry_mark(mem)
                [] wr.pc = 4 -> rs_entry_or(mem)
                [] wr.pc = 5 -> rs_entry_clear(mem)
    /\ wr' = [wr EXCEPT !.pc = IF @ = 5 THEN 0 ELSE @ + 1]
    /\ hist' = IF wr.pc = 5 THEN hist \cup {RsSnapshot(mem')} ELSE hist
    /\ UNCHANGED <<tsc, rd, budget>> /\ RsaUnchanged

\* the reader: state_entry_time, then state and time[], then state_entry_time
RsaRdBegin ==
    /\ rd.pc = 0
    /\ rd' = [Rd0 EXCEPT !.pc = 1, !.v0 = mem.runstate.state_entry_time]
    /\ UNCHANGED <<mem, tsc, wr, hist, budget>> /\ RsaUnchanged

RsaRdField ==
    /\ rd.pc \in 1 .. 2
    /\ rd' = [rd EXCEPT !.pc = @ + 1,
                        !.got = Append(@, IF rd.pc = 1 THEN mem.runstate.state
                                          ELSE mem.runstate.time)]
    /\ UNCHANGED <<mem, tsc, wr, hist, budget>> /\ RsaUnchanged

RsaRdEnd ==
    /\ rd.pc = 3
    /\ rd' = [rd EXCEPT !.pc = 5, !.v1 = mem.runstate.state_entry_time]
    /\ UNCHANGED <<mem, tsc, wr, hist, budget>> /\ RsaUnchanged

NextRsa ==
    \/ RsaTick \/ RsaBegin \/ RsaStore \/ RsaRdBegin \/ RsaRdField \/ RsaRdEnd
    \/ RdAgain

SpecRsa == InitRsa /\ [][NextRsa]_vars

MarkerClear(e) == e < TopBit

\* the reader found XEN_RUNSTATE_UPDATE clear before and after its read
RsaAccepted == rd.pc = 5 /\ MarkerClear(rd.v0) /\ MarkerClear(rd.v1)

\* C19: with the runstate-update assist negotiated, a reader that samples the
\* runstate area at any point of an update_runstate in progress and finds the
\* marker bit clear in state_entry_time before and after its read has a
\* consistent (state, state_entry_time, time[]) snapshot, all from before or
\* all from after the update; every intermediate state whose fields are
\* mutually inconsistent has the marker bit set.
C19_MarkerCoversUpdate ==
    /\ RsaAccepted => <<rd.got[1], rd.v1, rd.got[2]>> \in hist
    /\ wr.pc > 0 /\ RsSnapshot(mem) \notin hist =>
         ~MarkerClear(mem.runstate.state_entry_time)

\* a reader that also asks for the same state_entry_time before and after
\* still accepts a torn snapshot
SameEntryStillTorn ==
    RsaAccepted /\ rd.v0 = rd.v1 => <<rd.got[1], rd.v1, rd.got[2]>> \in hist

\* only the stores of state_entry_time are made under the marker
MarkerCoversEntryTime ==
    wr.pc \in 4 .. 5 => ~MarkerClear(mem.runstate.state_entry_time)

\* the stores taken one by one leave what update_runstate leaves
RsaStoresAgree ==
    [][wr.pc = 1 =>
         rs_entry_clear(rs_entry_or(rs_entry_mark(
             rs_set_state(rs_add_time(mem), wr.new_state)))).runstate
           = update_runstate(Cur, wr.new_state, tsc).mem.runstate]_vars

\* ======================================================================
\* The life of the singleshot timer: Disarmed, Armed, Disarmed.
\* ======================================================================
Armed == xen.m_pet_enabled /\ vcpu.pet_on
Disarmed == ~xen.m_pet_enabled /\ ~vcpu.pet_on

\* a step in which the preemption timer expired and handle_pet ran
PetStep == budget' # budget /\ ret'.op = "pet"

\* a step in which VCPUOP_set_singleshot_timer returned 0
SetTimerSucceededStep ==
    /\ budget' # budget
    /\ ret'.op = "hypercall" /\ ret'.in.rax = "__HYPERVISOR_vcpu_op"
    /\ ret'.in.rdi = "VCPUOP_set_singleshot_timer"
    /\ ret'.res = "true" /\ vcpu'.rax = "0"

\* C20: the singleshot timer goes Disarmed -> Armed -> Disarmed and fires
\* once: it is Armed or Disarmed in every state; on expiry handle_pet disables
\* the hardware preemption timer, leaves the timer Disarmed and queues
\* VIRQ_TIMER exactly once; the timer expires only while Armed, and only a
\* successful set_timer arms it, so no further expiry occurs before one.
C20_FiresOnce ==
    [][/\ Armed' \/ Disarmed'
       /\ PetStep =>
            /\ Armed /\ Disarmed'
            /\ ret'.res = "true" /\ ret'.eff = <<"queue_virq_VIRQ_TIMER">>
       /\ ~Armed /\ Armed' => SetTimerSucceededStep]_vars

C20_Witness ==
    /\ ret.op = "pet" /\ ret.eff = <<"queue_virq_VIRQ_TIMER">>
    /\ Disarmed /\ vcpu.ctx = "handled"
    /\ xen.m_tsc_at_exit > 0

\* ======================================================================
\* C21  Lazy installation of the timer handlers
\* vcpu.hdlrs counts the calls of add_preemption_timer_handler,
\* add_hlt_handler, add_exit_handler, emulate_wrmsr(0x6E0) and
\* add_resume_delegate that this object made on its vcpu.
\* ======================================================================
TimerHdlrs == {"pet", "hlt", "exit", "wrmsr_tsc_deadline"}

\* C21: across any sequence of hypercalls on one vcpu, repeated
\* set_singleshot_timer calls and repeated initialisations of the shared-info
\* page included, the expiry handler, the HLT handler, the exit TSC-snapshot
\* handler, the resume handler and the TSC-deadline MSR trap are each
\* installed at most once.
C21_HandlersInstalledOnce ==
    \A h \in TimerHdlrs \cup {"resume"} : vcpu.hdlrs[h] <= 1

\* the four handlers behind m_pet_hdlrs_added are installed together, once
TimerHandlersInstalledOnce ==
    \A h \in TimerHdlrs : vcpu.hdlrs[h] = IF xen.m_pet_hdlrs_added THEN 1 ELSE 0

\* the resume delegate is added by init_shared_info, not by the first timer
\* call: a mapped page has one, and a timer call never adds one
ResumeDelegateFromInit ==
    /\ xen.m_shinfo <=> vcpu.hdlrs.resume > 0
    /\ [][ret'.op = "hypercall" /\ budget' # budget
            => vcpu'.hdlrs.resume = vcpu.hdlrs.resume]_vars

\* the shared-info page was mapped twice: resume_update is registered twice
ResumeDelegateTwice == vcpu.hdlrs.resume = 2

\* ======================================================================
\* C22  Routing of a host interrupt vector
\* in.msi is what the look-ups of handle_interrupt find for the vector:
\* "none" (find_guest_msi finds no guest MSI), "nopdev" (the MSI has no
\* device), "gone" (get_guest finds no vcpu with the owner's id), "self"
\* (the owner is m_vcpu), "other" (the owner is another guest vcpu).
\* ======================================================================
InterruptStep == budget' # budget /\ ret'.op = "interrupt"

\* the calls of handle_interrupt that hand the vector to a vcpu
Deliveries ==
    {"queue_external_interrupt", "push_external_interrupt_other",
     "parent_queue_external_interrupt"}

Delivered(eff) == {i \in DOMAIN eff : eff[i] \in Deliveries}

\* nothing of this vcpu but its exit TSC snapshot changed
OnlyHandled ==
    /\ xen' = Entered.xen /\ mem' = mem
    /\ vcpu' = [vcpu EXCEPT !.ctx = "handled"]

RoutedToSelf ==
    ret'.eff = <<"queue_external_interrupt", "put_guest">> /\ OnlyHandled

RoutedToOther ==
    ret'.eff = <<"push_external_interrupt_other", "put_guest">> /\ OnlyHandled

RoutedToParent ==
    /\ ret'.eff = <<"save_xstate", "parent_load", "parent_queue_external_interrupt",
                    "return_resume_after_interrupt">>
    /\ vcpu'.ctx = "parent"
    /\ xen.m_shinfo /\ xen.m_user_vti /\ xen.m_runstate
         => mem'.runstate.state = "runnable"

ParentTookVector ==
    /\ ret.op = "interrupt" /\ ret.in.msi = "none"
    /\ vcpu.ctx = "parent" /\ mem.runstate.state = "runnable"
    /\ xen.m_runstate

\* ======================================================================
\* C23  The HLT bridge: Running -> Blocked -> Running
\* The published runstate is mem.runstate.state once the guest registered
\* its runstate area (m_runstate).
\* ======================================================================
\* handle_hlt ran with the guest's interrupt-enable flag set
HltStep == budget' # budget /\ ret'.op = "hlt" /\ ret'.in.if_flag

\* this vcpu yielded in handle_hlt and was not resumed since
Yielded == vcpu.ctx = "parent" /\ ret.op = "hlt"

HltEffects ==
    <<"advance", "queue_virq_VIRQ_TIMER", "blocking_by_sti_disable",
      "save_xstate", "parent_load", "return_yield">>

HltBridge(published) ==
    /\ HltStep =>
         /\ ret'.res = "true" /\ ret'.eff = HltEffects
         /\ vcpu'.ctx = "parent"
         /\ published => mem'.runstate.state = "blocked"
    /\ Yielded /\ published =>
         mem'.runstate.state = IF ResumeStep THEN "running" ELSE "blocked"

\* C23: handle_hlt with the interrupt-enable flag set advances past HLT,
\* queues VIRQ_TIMER, sets the published runstate to blocked, saves the
\* extended state and yields to the parent; the published runstate stays
\* blocked until the next resume of this vcpu, which sets it to running.
C23_HltBridge == [][HltBridge(xen.m_runstate)]_vars

\* the same of a vcpu that registered the time-info mirror as well
HltBridgeWithMirror == [][HltBridge(xen.m_runstate /\ xen.m_user_vti)]_vars

\* without the mirror neither handle_hlt nor the resume writes the area
HltBridgeSkippedWithoutMirror ==
    [][(HltStep \/ (Yielded /\ ResumeStep)) /\ xen.m_runstate /\ ~xen.m_user_vti
         => mem'.runstate = mem.runstate]_vars

\* the vcpu sits in the parent after HLT with a registered area that says running
YieldedWhileRunning ==
    Yielded /\ xen.m_runstate /\ mem.runstate.state = "running"

\* the vcpu sits in the parent after HLT and the area says blocked
YieldedWhileBlocked ==
    Yielded /\ xen.m_runstate /\ mem.runstate.state = "blocked"

\* the vcpu was resumed after HLT and the area says running again
ResumedAfterHlt ==
    /\ ret.op = "resume" /\ vcpu.ctx = "guest"
    /\ xen.m_runstate /\ xen.m_user_vti
    /\ mem.runstate.state = "running" /\ mem.runstate.time["blocked"] > 1

\* ======================================================================
\* C24  stop_timer is idempotent and total
\* ======================================================================
\* a step in which VCPUOP_stop_singleshot_timer ran for this vcpu
StopTimerStep ==
    /\ budget' # budget /\ ret'.op = "hypercall"
    /\ ret'.in.rax = "__HYPERVISOR_vcpu_op"
    /\ ret'.in.rdi = "VCPUOP_stop_singleshot_timer"
    /\ ret'.in.rsi = xen.vcpuid

TimerOff(s) == ~s.xen.m_pet_enabled /\ ~s.vcpu.pet_on

\* stop_timer applied to the state the vcpu is in: the timer is Disarmed, a
\* second call changes nothing, and nothing but the two enables was written
StopTimerOnce ==
    LET s1 == stop_timer(Cur)
    IN  /\ TimerOff(s1)
        /\ stop_timer(s1) = s1
        /\ s1 = [Cur EXCEPT !.vcpu.pet_on = FALSE, !.xen.m_pet_enabled = FALSE]

\* C24: from Disarmed and from Armed alike stop_timer disables the hardware
\* preemption timer and leaves the timer Disarmed, and two calls in a row
\* leave the state one call leaves; the hypercall that reaches it succeeds
\* in either state.
C24_StopTimerIdempotent ==
    /\ [](StopTimerOnce)
    /\ [][StopTimerStep =>
            /\ ret'.res = "true" /\ vcpu'.rax = "0"
            /\ Disarmed'
            /\ xen' = stop_timer(Entered).xen
            /\ mem' = mem
            /\ vcpu'.pet = vcpu.pet
            /\ Disarmed => xen' = Entered.xen /\ vcpu'.pet_on = vcpu.pet_on]_vars

\* a timer that had been programmed with ticks was stopped by the hypercall
C24_Witness ==
    /\ CalledGroup("__HYPERVISOR_vcpu_op")
    /\ ret.in.rdi = "VCPUOP_stop_singleshot_timer" /\ ret.res = "true"
    /\ Disarmed /\ vcpu.pet > 0 /\ obs.stopped

\* no stop reaches an Armed timer (it does: this one is violated)
StopNeverFindsArmed == [][StopTimerStep => ~Armed]_vars

\* no stop follows a stop without a set_timer in between (one does: this
\* one is violated)
StopNeverFollowsStop == [][StopTimerStep => ~(obs.stopped /\ Disarmed)]_vars

====
